---- MODULE Spec2Model ----
(***************************************************************************)
(* Model of the vsomeipc facade (alex-seifarth/bnsmw, vsomeiprs/vsomeipc): *)
(* the application class of application.{h,cpp} and the C boundary of      *)
(* vsomeipc.{h,cpp}.                                                       *)
(*                                                                         *)
(* The vsomeip Runtime is an external library.  It appears here only as    *)
(* the state the facade's calls act on: a session per application, a       *)
(* handler registry (one state slot, one message slot, availability        *)
(* handlers keyed by (service, instance, major)), a stop flag, and a queue *)
(* of events that the blocking run operation, executing on the facade's    *)
(* dispatch thread, takes one at a time; taking an event looks the handler *)
(* up and starts the callback in one step.                                 *)
(***************************************************************************)
EXTENDS Integers, Sequences, FiniteSets, TLC

(* ------------------------------ bounds -------------------------------- *)

\* application handle cells that can ever be allocated
MaxApps == 2
\* of these, the cells used where one application's life is followed
MaxCreated == 1
\* events the Runtime may hold queued, over all sessions
MaxQueue == 1
\* payload handle cells that can be allocated at one time
MaxPayloads == 1
\* longest byte buffer a caller passes
MaxLen == 2
\* message handle cells that can be allocated at one time
MaxMessages == 1
\* messages handed to the Runtime's send by send_response and send_error
MaxSent == 2
MaxStops == 2

(* ------------------------- program constants -------------------------- *)

NULL == 0

DEREGISTERED == 0
REGISTERED == 1
AS_UNAVAILABLE == 0
AS_AVAILABLE == 1

MT_REQUEST == 0
MT_REQUEST_NO_RETURN == 1
MT_NOTIFICATION == 2
MT_REQUEST_ACK == 64
MT_REQUEST_NO_RETURN_ACK == 65
MT_NOTIFICATION_ACK == 66
MT_RESPONSE == 128
MT_ERROR == 129
MT_RESPONSE_ACK == 192
MT_ERROR_ACK == 193
MT_UNKNOWN == 255

E_OK == 0
E_NOT_OK == 1
E_UNKNOWN_SERVICE == 2
E_UNKNOWN_METHOD == 3
E_NOT_READY == 4
E_NOT_REACHABLE == 5
E_TIMEOUT == 6
E_WRONG_PROTOCOL_VERSION == 7
E_WRONG_INTERFACE_VERSION == 8
E_MALFORMED_MESSAGE == 9
E_WRONG_MESSAGE_TYPE == 10
E_UNKNOWN == 255

(* --------------------------- value domains ---------------------------- *)

Apps == 1..MaxApps
PlHandles == 1..MaxPayloads

\* C callbacks and the context tokens ("object") a caller registers
Fns == {"f1", "f2"}
Ctxs == {"o1", "o2"}
NullFn == "nullfn"
NullCtx == "nullctx"

Closure == [fn : Fns, ctx : Ctxs]
NoHandler == [fn |-> NullFn, ctx |-> NullCtx]

\* no facade call is between two calls into the Runtime
Idle == [op |-> "none"]

\* the (service, instance, major) keys of availability handlers
AvailKeys == {<<1, 1, 1>>, <<1, 1, 2>>, <<1, 2, 1>>}

\* a null pointer passed where the C caller passes an array: a value that no
\* array of bytes or of event groups is
NullPtr == <<-1>>

Bytes == {0, 255}
Buffers == UNION {[1..n -> Bytes] : n \in 0..MaxLen}

(* ------------------------------ state -------------------------------- *)

VARIABLES
    app_cell,     \* handle cell of each application: unalloc, live, deleting, freed
    session,      \* the Runtime's session of each application: none, registered, removed
    thr,          \* _dispatch_thread: none, spawned, running, in_callback, exited, joined
    stop_req,     \* the Runtime's stop signal of the session
    dtor_i,       \* steps of ~application() already executed
    state_h,      \* Runtime registry: state handler slot
    msg_h,        \* Runtime registry: message handler slot
    avail_h,      \* Runtime registry: availability handlers by key
    requested,    \* services the session has requested from the Runtime
    queue,        \* events the Runtime holds for the session
    cb,           \* the callback executing on the dispatch thread, as the C callback sees it
    reg_state,    \* the caller's last state registration (fn, ctx)
    reg_msg,      \* the caller's last message registration (fn, ctx)
    reg_avail,    \* the caller's last availability registration by key
    replaced,     \* kinds of handler the caller has registered over a different earlier one
    payloads,     \* payload handle cells
    messages,     \* message handle cells
    info,         \* the PayloadInfo the last payload_get_info returned
    wire,         \* the message last handed to the Runtime's send
    sent,         \* number of messages handed to the Runtime's send
    callers,      \* caller threads inside send_request: position, local message, result
    rt_session,   \* the session id the Runtime assigned last
    halted,       \* how the process ended: "no", "abort" (a failed assert) or "exit" (exit(1))
    diag,         \* what exit(1) was preceded by on std::cerr: the kind and the value, or <<>>
    spawns,       \* per application: the threads start() has created
    joins,        \* per application: the joins of the dispatch thread
    stop_pc,      \* per application: where a call of stop() is: "idle" or "join"
    stops,        \* per application: the calls of stop() that have returned
    runs_on,      \* per application: the thread that runs the run operation of the Runtime
    pending,      \* per application: the facade call between two calls into the Runtime
    stop_lost,    \* per application: the run operation was entered after the stop signal
    events,       \* per application: the events offered and requested with the Runtime
    held,         \* the handles the caller has received and not passed to a destroy operation
    last_call     \* the last handle call at the boundary and what it returned

vars == <<app_cell, session, thr, stop_req, dtor_i, state_h, msg_h, avail_h,
          requested, queue, cb, reg_state, reg_msg, reg_avail, replaced,
          payloads, messages, info, wire, sent, callers, rt_session, halted, diag,
          spawns, joins, stop_pc, stops, held, last_call, runs_on,
          pending, stop_lost, events>>

appVars == <<app_cell, session, thr, stop_req, dtor_i>>
regVars == <<state_h, msg_h, avail_h, requested>>
viewVars == <<reg_state, reg_msg, reg_avail, replaced>>
cellVars == <<messages, info>>
sendVars == <<wire, sent, callers, rt_session>>
auxVars == <<held, halted, diag, spawns, joins, stop_pc, stops, runs_on, pending,
            stop_lost, events>>

\* variant: start() calls the run operation itself, on the thread of its caller
start_thread_inline == "caller"

\* application::start(): the run operation is called on a thread of its own
start_thread == "dispatch"

NoCb == [kind |-> "none"]
NoCall == [op |-> "none", h |-> NULL, ret |-> NULL, rt |-> "none"]
\* a payload cell: whether the shared pointer in it holds a payload, the bytes
\* of that payload; by, given, size: how the cell came about
FreePayload ==
    [st |-> "free", has |-> FALSE, data |-> <<>>, by |-> "none", given |-> <<>>, size |-> 0]

(* --------------- enumerators at the boundary and in the Runtime -------- *)

MessageTypes ==
    {MT_REQUEST, MT_REQUEST_NO_RETURN, MT_NOTIFICATION, MT_REQUEST_ACK,
     MT_REQUEST_NO_RETURN_ACK, MT_NOTIFICATION_ACK, MT_RESPONSE, MT_ERROR,
     MT_RESPONSE_ACK, MT_ERROR_ACK, MT_UNKNOWN}

ReturnCodes ==
    {E_OK, E_NOT_OK, E_UNKNOWN_SERVICE, E_UNKNOWN_METHOD, E_NOT_READY, E_NOT_REACHABLE,
     E_TIMEOUT, E_WRONG_PROTOCOL_VERSION, E_WRONG_INTERFACE_VERSION, E_MALFORMED_MESSAGE,
     E_WRONG_MESSAGE_TYPE, E_UNKNOWN}

\* from(message_type): the Runtime enumerator for a boundary value; a value
\* outside the set ends the process
from_message_type(mt) ==
    CASE mt = MT_REQUEST -> "MT_REQUEST"
      [] mt = MT_REQUEST_NO_RETURN -> "MT_REQUEST_NO_RETURN"
      [] mt = MT_NOTIFICATION -> "MT_NOTIFICATION"
      [] mt = MT_REQUEST_ACK -> "MT_REQUEST_ACK"
      [] mt = MT_REQUEST_NO_RETURN_ACK -> "MT_REQUEST_NO_RETURN_ACK"
      [] mt = MT_NOTIFICATION_ACK -> "MT_NOTIFICATION_ACK"
      [] mt = MT_RESPONSE -> "MT_RESPONSE"
      [] mt = MT_ERROR -> "MT_ERROR"
      [] mt = MT_RESPONSE_ACK -> "MT_RESPONSE_ACK"
      [] mt = MT_ERROR_ACK -> "MT_ERROR_ACK"
      [] mt = MT_UNKNOWN -> "MT_UNKNOWN"
      [] OTHER -> "exit"

\* from(return_code)
\* variant: every value but E_OK is taken for E_NOT_OK
from_return_code_defaulting(rt) == IF rt = E_OK THEN "E_OK" ELSE "E_NOT_OK"

from_return_code(rt) ==
    CASE rt = E_OK -> "E_OK"
      [] rt = E_NOT_OK -> "E_NOT_OK"
      [] rt = E_UNKNOWN_SERVICE -> "E_UNKNOWN_SERVICE"
      [] rt = E_UNKNOWN_METHOD -> "E_UNKNOWN_METHOD"
      [] rt = E_NOT_READY -> "E_NOT_READY"
      [] rt = E_NOT_REACHABLE -> "E_NOT_REACHABLE"
      [] rt = E_TIMEOUT -> "E_TIMEOUT"
      [] rt = E_WRONG_PROTOCOL_VERSION -> "E_WRONG_PROTOCOL_VERSION"
      [] rt = E_WRONG_INTERFACE_VERSION -> "E_WRONG_INTERFACE_VERSION"
      [] rt = E_MALFORMED_MESSAGE -> "E_MALFORMED_MESSAGE"
      [] rt = E_WRONG_MESSAGE_TYPE -> "E_WRONG_MESSAGE_TYPE"
      [] rt = E_UNKNOWN -> "E_UNKNOWN"
      [] OTHER -> "exit"

\* the values of the Runtime's enumerators, which are those of the SOME/IP
\* header; the casts (message_type) and (return_code) of make_message_header
\* read them
vsomeip_message_type_e ==
    [MT_REQUEST |-> 0, MT_REQUEST_NO_RETURN |-> 1, MT_NOTIFICATION |-> 2,
     MT_REQUEST_ACK |-> 64, MT_REQUEST_NO_RETURN_ACK |-> 65, MT_NOTIFICATION_ACK |-> 66,
     MT_RESPONSE |-> 128, MT_ERROR |-> 129, MT_RESPONSE_ACK |-> 192,
     MT_ERROR_ACK |-> 193, MT_UNKNOWN |-> 255]

vsomeip_return_code_e ==
    [E_OK |-> 0, E_NOT_OK |-> 1, E_UNKNOWN_SERVICE |-> 2, E_UNKNOWN_METHOD |-> 3,
     E_NOT_READY |-> 4, E_NOT_REACHABLE |-> 5, E_TIMEOUT |-> 6,
     E_WRONG_PROTOCOL_VERSION |-> 7, E_WRONG_INTERFACE_VERSION |-> 8,
     E_MALFORMED_MESSAGE |-> 9, E_WRONG_MESSAGE_TYPE |-> 10, E_UNKNOWN |-> 255]

\* enum message_type and enum return_code of the boundary, by enumerator name
enum_message_type ==
    [MT_REQUEST |-> MT_REQUEST, MT_REQUEST_NO_RETURN |-> MT_REQUEST_NO_RETURN,
     MT_NOTIFICATION |-> MT_NOTIFICATION, MT_REQUEST_ACK |-> MT_REQUEST_ACK,
     MT_REQUEST_NO_RETURN_ACK |-> MT_REQUEST_NO_RETURN_ACK,
     MT_NOTIFICATION_ACK |-> MT_NOTIFICATION_ACK, MT_RESPONSE |-> MT_RESPONSE,
     MT_ERROR |-> MT_ERROR, MT_RESPONSE_ACK |-> MT_RESPONSE_ACK,
     MT_ERROR_ACK |-> MT_ERROR_ACK, MT_UNKNOWN |-> MT_UNKNOWN]

enum_return_code ==
    [E_OK |-> E_OK, E_NOT_OK |-> E_NOT_OK, E_UNKNOWN_SERVICE |-> E_UNKNOWN_SERVICE,
     E_UNKNOWN_METHOD |-> E_UNKNOWN_METHOD, E_NOT_READY |-> E_NOT_READY,
     E_NOT_REACHABLE |-> E_NOT_REACHABLE, E_TIMEOUT |-> E_TIMEOUT,
     E_WRONG_PROTOCOL_VERSION |-> E_WRONG_PROTOCOL_VERSION,
     E_WRONG_INTERFACE_VERSION |-> E_WRONG_INTERFACE_VERSION,
     E_MALFORMED_MESSAGE |-> E_MALFORMED_MESSAGE,
     E_WRONG_MESSAGE_TYPE |-> E_WRONG_MESSAGE_TYPE, E_UNKNOWN |-> E_UNKNOWN]

cast_message_type(e) == vsomeip_message_type_e[e]
\* variant: a code that is not ok is handed on as not-ok
cast_return_code_collapsing(e) == IF e = "E_OK" THEN E_OK ELSE E_NOT_OK

cast_return_code(e) == vsomeip_return_code_e[e]

(* ------------------------ messages and headers ------------------------ *)

\* a vsomeip::message as the Runtime hands it to the message handler
InboundMsgs ==
    { [service |-> 1, instance |-> 1, method |-> 1, client |-> 7, session |-> 66,
       proto_version |-> 1, if_version |-> 1, message_type |-> "MT_RESPONSE",
       return_code |-> "E_UNKNOWN_METHOD", is_initial |-> FALSE, is_reliable |-> TRUE,
       has_payload |-> TRUE, data |-> <<255>>],
      [service |-> 2, instance |-> 1, method |-> 1, client |-> 7, session |-> 1,
       proto_version |-> 1, if_version |-> 2, message_type |-> "MT_NOTIFICATION",
       return_code |-> "E_OK", is_initial |-> TRUE, is_reliable |-> FALSE,
       has_payload |-> FALSE, data |-> <<>>] }

\* vsomeip::message::get_length(): the SOME/IP length field, which counts the
\* 8 header bytes that follow it plus the payload
VSOMEIP_SOMEIP_HEADER_SIZE == 8
get_length(msg) == VSOMEIP_SOMEIP_HEADER_SIZE + Len(msg.data)

make_message_header(msg) ==
    [service |-> msg.service, instance |-> msg.instance, method |-> msg.method,
     client |-> msg.client, session |-> msg.session,
     proto_version |-> msg.proto_version, if_version |-> msg.if_version,
     message_type |-> cast_message_type(msg.message_type),
     return_code |-> cast_return_code(msg.return_code),
     is_initial |-> msg.is_initial, is_reliable |-> msg.is_reliable,
     data_null |-> ~msg.has_payload, data |-> msg.data,
     data_size |-> get_length(msg)]

\* runtime->create_message(reliable): a message none of whose fields the
\* facade has set
create_message(reliable) ==
    [service |-> 0, instance |-> 0, method |-> 0, client |-> 0, session |-> 0,
     proto_version |-> 1, if_version |-> 0, message_type |-> "MT_UNKNOWN",
     return_code |-> "E_OK", is_initial |-> FALSE, is_reliable |-> reliable,
     has_payload |-> FALSE, data |-> <<>>]

\* runtime->create_request(reliable)
create_request(reliable) == [create_message(reliable) EXCEPT !.message_type = "MT_REQUEST"]

\* variant: one byte less than asked for is copied
create_payload_short(data, size) == SubSeq(data, 1, size - 1)

\* runtime->create_payload(data, size): a payload holding a copy of the first
\* size bytes at data
create_payload(data, size) == SubSeq(data, 1, size)

NoMessage == create_message(FALSE)
NoInfo == [data_null |-> TRUE, data |-> <<>>, length |-> 0]
MsgHandles == 1..MaxMessages
FreeMessage == [st |-> "free", msg |-> NoMessage]
Callers == {"t1", "t2"}
IdleCaller == [pc |-> "idle", args |-> <<>>, msg |-> NoMessage, assigned |-> 0, ret |-> 0]

(* ------------------- the lambdas around a C callback ------------------ *)

\* application.cpp 173-174 around vsomeipc.cpp 58
state_lambda(c, st) ==
    [kind |-> "state", fn |-> c.fn, ctx |-> c.ctx,
     state |-> IF st = "ST_REGISTERED" THEN REGISTERED ELSE DEREGISTERED]

\* variant: the callback is called without the object of the registration
avail_lambda_untargeted(c, svc, inst, avail) ==
    [kind |-> "avail", fn |-> c.fn, ctx |-> NullCtx, service |-> svc, instance |-> inst,
     avail |-> IF avail THEN AS_AVAILABLE ELSE AS_UNAVAILABLE]

\* application.cpp 190-191 around vsomeipc.cpp 174-175
avail_lambda(c, svc, inst, avail) ==
    [kind |-> "avail", fn |-> c.fn, ctx |-> c.ctx, service |-> svc, instance |-> inst,
     avail |-> IF avail THEN AS_AVAILABLE ELSE AS_UNAVAILABLE]

\* variant: the callback is handed no payload handle
msg_lambda_without_payload(c, msg, pl) ==
    [kind |-> "message", fn |-> c.fn, ctx |-> c.ctx,
     header |-> make_message_header(msg), payload |-> NULL]

\* application.cpp 204-206 around vsomeipc.cpp 63-68
msg_lambda(c, msg, pl) ==
    [kind |-> "message", fn |-> c.fn, ctx |-> c.ctx,
     header |-> make_message_header(msg), payload |-> pl]

(* --------------------- handler registry updates ----------------------- *)

\* variant: a slot that is taken keeps its handler
setup_state_handler_keeping(old, c) == IF old = NoHandler THEN c ELSE old

\* register_state_handler: the slot takes the new closure
setup_state_handler(old, c) == c

\* variant: the callback is exchanged in place, the captured context stays
setup_msg_handler_in_place(old, c) == [fn |-> c.fn, ctx |-> old.ctx]

\* register_message_handler(ANY_SERVICE, ANY_INSTANCE, ANY_METHOD, ...): one slot
setup_msg_handler(old, c) == c

\* variant: the major version is not passed on, the handler serves every major
setup_avail_handler_any_major(reg, service, instance, major, c) ==
    [k \in DOMAIN reg |-> IF k[1] = service /\ k[2] = instance THEN c ELSE reg[k]]

\* register_availability_handler(service, instance, handler, major, ANY_MINOR)
setup_avail_handler(reg, service, instance, major, c) ==
    [reg EXCEPT ![<<service, instance, major>>] = c]

\* unregister_availability_handler(service, instance, major)
clear_avail_handler(reg, service, instance, major) ==
    [reg EXCEPT ![<<service, instance, major>>] = NoHandler]

(* --------------------------- create / delete -------------------------- *)

\* variant: the result of init() is not looked at
application_create_unchecked(outcome) == outcome # "create_failed"

\* application::create: whether it returns an instance, given what the Runtime
\* does with create_application(name) and init()
application_create(outcome) ==
    IF outcome = "create_failed" THEN FALSE
    ELSE IF outcome = "init_failed" THEN FALSE
    ELSE TRUE

RuntimeOutcomes == {"ok", "create_failed", "init_failed"}

\* variant: the cell of a deleted application is handed out again as it is
FreeApps_reusing == {a \in Apps : app_cell[a] \in {"unalloc", "freed"}}

FreeApps == {a \in Apps : app_cell[a] = "unalloc"}
NewApp == CHOOSE a \in FreeApps : \A b \in FreeApps : a <= b

\* the next cell is one of the first MaxCreated
CellLeft == FreeApps # {} /\ NewApp <= MaxCreated

\* create_application(name): application::create, then one handle cell
CreateApplication(outcome) ==
    /\ application_create(outcome) => FreeApps # {}
    /\ IF application_create(outcome)
       THEN /\ app_cell' = [app_cell EXCEPT ![NewApp] = "live"]
            /\ session' = [session EXCEPT ![NewApp] = "registered"]
            /\ thr' = [thr EXCEPT ![NewApp] = "spawned"]
            /\ spawns' = [spawns EXCEPT ![NewApp] = @ + 1]
            /\ runs_on' = [runs_on EXCEPT ![NewApp] = start_thread]
            /\ held' = held \cup {<<"application", NewApp>>}
            /\ last_call' = [op |-> "create_application", h |-> NULL,
                             ret |-> NewApp, rt |-> outcome]
       ELSE /\ UNCHANGED <<app_cell, session, thr, held, spawns, runs_on>>
            /\ last_call' = [op |-> "create_application", h |-> NULL,
                             ret |-> NULL, rt |-> outcome]
    /\ UNCHANGED <<stop_req, dtor_i, regVars, queue, cb, viewVars, payloads>>
    /\ UNCHANGED <<cellVars, sendVars>>
    /\ UNCHANGED <<halted, diag, joins, stop_pc, stops, pending, stop_lost, events>>

\* the handles a caller may pass: null, or a cell it got and has not deleted
AppHandles == {NULL} \cup {a \in Apps : app_cell[a] = "live"}

\* variant: the handle is not tested before it is used to get at the cell
application_delete_unchecked(h) ==
    IF h # NULL THEN {h} ELSE {a \in Apps : app_cell[a] = "live"}

\* application_delete: the cells whose deletion the call starts
application_delete(h) == IF h # NULL /\ app_cell[h] = "live" THEN {h} ELSE {}

ApplicationDelete(h) ==
    /\ h \in AppHandles
    /\ app_cell' = [a \in Apps |->
                      IF a \in application_delete(h) THEN "deleting" ELSE app_cell[a]]
    /\ held' = held \ {<<"application", h>>}
    /\ last_call' = [op |-> "application_delete", h |-> h, ret |-> NULL, rt |-> "none"]
    /\ UNCHANGED <<session, thr, stop_req, dtor_i, regVars, queue, cb, viewVars,
                   payloads>>
    /\ UNCHANGED <<cellVars, sendVars>>
    /\ UNCHANGED <<halted, diag, spawns, joins, stop_pc, stops, runs_on, pending,
                   stop_lost, events>>

\* variant: stop() signals the Runtime and does not join the thread
DtorOrder_without_join == <<"clear_all_handler", "stop", "remove_application">>

\* variant: the dispatch loop is stopped first, the handlers are cleared after
DtorOrder_stop_first == <<"stop", "join", "clear_all_handler", "remove_application">>

\* ~application(): clear_all_handler(); stop() = { _application->stop(); join };
\* remove_application(name)
DtorOrder == <<"clear_all_handler", "stop", "join", "remove_application">>

DtorAt(a, step) ==
    /\ app_cell[a] = "deleting"
    /\ dtor_i[a] < Len(DtorOrder)
    /\ DtorOrder[dtor_i[a] + 1] = step

DtorClearAllHandler(a) ==
    /\ DtorAt(a, "clear_all_handler")
    /\ state_h' = [state_h EXCEPT ![a] = NoHandler]
    /\ msg_h' = [msg_h EXCEPT ![a] = NoHandler]
    /\ avail_h' = [avail_h EXCEPT ![a] = [k \in AvailKeys |-> NoHandler]]
    /\ dtor_i' = [dtor_i EXCEPT ![a] = @ + 1]
    /\ UNCHANGED <<app_cell, session, thr, stop_req, requested, queue, cb, viewVars,
                   payloads, last_call>>
    /\ UNCHANGED <<cellVars, sendVars>>
    /\ UNCHANGED auxVars

DtorStop(a) ==
    /\ DtorAt(a, "stop")
    /\ stop_req' = [stop_req EXCEPT ![a] = TRUE]
    /\ dtor_i' = [dtor_i EXCEPT ![a] = @ + 1]
    /\ UNCHANGED <<app_cell, session, thr, regVars, queue, cb, viewVars,
                   payloads, last_call>>
    /\ UNCHANGED <<cellVars, sendVars>>
    /\ UNCHANGED auxVars

\* variant: the thread object never reports a thread to join
joinable_never(t) == FALSE

\* std::thread::joinable(): the object holds a thread that was not joined
joinable(t) == t \in {"spawned", "running", "in_callback", "exited"}

DtorJoin(a) ==
    /\ DtorAt(a, "join")
    /\ IF joinable(thr[a])
       THEN /\ thr[a] = "exited"
            /\ thr' = [thr EXCEPT ![a] = "joined"]
            /\ joins' = [joins EXCEPT ![a] = @ + 1]
       ELSE UNCHANGED <<thr, joins>>
    /\ dtor_i' = [dtor_i EXCEPT ![a] = @ + 1]
    /\ UNCHANGED <<app_cell, session, stop_req, regVars, queue, cb, viewVars,
                   payloads, last_call>>
    /\ UNCHANGED <<cellVars, sendVars>>
    /\ UNCHANGED <<held, halted, diag, spawns, stop_pc, stops, runs_on, pending, stop_lost,
                   events>>

\* variant: the Runtime drops the session of every application
remove_application_of_all(sess, a) == [b \in DOMAIN sess |-> "removed"]

\* _runtime->remove_application(_application->get_name())
remove_application(sess, a) == [sess EXCEPT ![a] = "removed"]

DtorRemoveApplication(a) ==
    /\ DtorAt(a, "remove_application")
    /\ session' = remove_application(session, a)
    /\ dtor_i' = [dtor_i EXCEPT ![a] = @ + 1]
    /\ UNCHANGED <<app_cell, thr, stop_req, regVars, queue, cb, viewVars,
                   payloads, last_call>>
    /\ UNCHANGED <<cellVars, sendVars>>
    /\ UNCHANGED auxVars

\* the destructor has run; delete frees the cell and application_delete returns
DeleteReturn(a) ==
    /\ app_cell[a] = "deleting"
    /\ dtor_i[a] = Len(DtorOrder)
    /\ app_cell' = [app_cell EXCEPT ![a] = "freed"]
    /\ UNCHANGED <<session, thr, stop_req, dtor_i, regVars, queue, cb, viewVars,
                   payloads, last_call>>
    /\ UNCHANGED <<cellVars, sendVars>>
    /\ UNCHANGED auxVars

\* variant: stop() joins without asking whether there is a thread to join
stop_joins_always(t) == TRUE

\* application::stop(): if (_dispatch_thread.joinable())
stop_joins(t) == joinable(t)

\* application::stop() called on the object: _application->stop()
StopBegin(a) ==
    /\ app_cell[a] = "live"
    /\ stop_pc[a] = "idle"
    /\ stops[a] < MaxStops
    /\ stop_req' = [stop_req EXCEPT ![a] = TRUE]
    /\ stop_pc' = [stop_pc EXCEPT ![a] = "join"]
    /\ UNCHANGED <<app_cell, session, thr, dtor_i, regVars, queue, cb, viewVars,
                   payloads, cellVars, sendVars, last_call>>
    /\ UNCHANGED <<held, halted, diag, spawns, joins, stops, runs_on, pending, stop_lost,
                   events>>

\* application::stop() after the signal: the join, which waits for the thread
\* to end, and the return.  join() on a thread object that is not joinable
\* throws std::system_error, which nothing catches.
StopJoin(a) ==
    /\ stop_pc[a] = "join"
    /\ IF stop_joins(thr[a])
       THEN IF joinable(thr[a])
            THEN /\ thr[a] = "exited"
                 /\ thr' = [thr EXCEPT ![a] = "joined"]
                 /\ joins' = [joins EXCEPT ![a] = @ + 1]
                 /\ stops' = [stops EXCEPT ![a] = @ + 1]
                 /\ UNCHANGED halted
            ELSE /\ halted' = "abort"
                 /\ UNCHANGED <<thr, joins, stops>>
       ELSE /\ stops' = [stops EXCEPT ![a] = @ + 1]
            /\ UNCHANGED <<thr, joins, halted>>
    /\ stop_pc' = [stop_pc EXCEPT ![a] = "idle"]
    /\ UNCHANGED <<app_cell, session, stop_req, dtor_i, regVars, queue, cb, viewVars,
                   payloads, cellVars, sendVars, last_call>>
    /\ UNCHANGED <<held, diag, spawns, runs_on, pending, stop_lost, events>>

(* ---------------------------- registration ---------------------------- *)

\* variant: the build leaves the assertion out
assert_app_unchecked(h) == TRUE

\* assert(app && *app): the handle is not null and its cell holds an application
assert_app(h) == h # NULL /\ app_cell[h] = "live"

\* assert(pl)
assert_pl(h) == h # NULL

\* the applications whose handle passes the assertion of a boundary operation
LiveApps == {a \in Apps : assert_app(a)}

\* the boundary operations that begin with assert(app && *app)
AppOps ==
    {"application_get_name", "application_register_handlers",
     "application_payload_create", "payload_create_empty", "application_create_message",
     "application_request_service", "application_release_service",
     "application_offer_service", "application_stop_offer_service",
     "application_offer_event", "application_stop_offer_event",
     "application_request_event", "application_release_event",
     "application_subscribe_event", "application_unsubscribe_event",
     "application_notify", "application_send_request", "application_send_response",
     "application_send_error"}

\* a boundary operation called with a handle its assertion rejects: abort()
AssertFails(op, h) ==
    /\ op \in AppOps
    /\ ~assert_app(h)
    /\ halted' = "abort"
    /\ last_call' = [op |-> op, h |-> h, ret |-> NULL, rt |-> "none"]
    /\ UNCHANGED <<appVars, regVars, queue, cb, viewVars, payloads, cellVars, sendVars, held>>
    /\ UNCHANGED <<diag, spawns, joins, stop_pc, stops, runs_on, pending, stop_lost, events>>

\* application_get_name(app): the name the Runtime has for the application
ApplicationGetName(h) ==
    /\ IF assert_app(h)
       THEN /\ last_call' = [op |-> "application_get_name", h |-> h, ret |-> "name",
                             rt |-> "ok"]
            /\ UNCHANGED halted
       ELSE /\ last_call' = [op |-> "application_get_name", h |-> h, ret |-> NULL,
                             rt |-> "none"]
            /\ halted' = "abort"
    /\ UNCHANGED <<appVars, regVars, queue, cb, viewVars, payloads, cellVars, sendVars, held>>
    /\ UNCHANGED <<diag, spawns, joins, stop_pc, stops, runs_on, pending, stop_lost, events>>

\* a registration of (fn, obj) over a different handler registered earlier
Replaces(old, fn, obj) ==
    fn # NullFn /\ old # NoHandler /\ old # [fn |-> fn, ctx |-> obj]

\* variant: a null callback is installed like any other
installs_always(fn) == TRUE

\* application_register_handlers: `if (state_handler)`, `if (msg_handler)`
installs(fn) == fn # NullFn

\* application_register_handlers(app, state_handler, msg_handler, object)
ApplicationRegisterHandlers(a, sh, mh, obj) ==
    /\ a \in LiveApps
    /\ state_h' = IF installs(sh)
                  THEN [state_h EXCEPT ![a] = setup_state_handler(@, [fn |-> sh, ctx |-> obj])]
                  ELSE state_h
    /\ msg_h' = IF installs(mh)
                THEN [msg_h EXCEPT ![a] = setup_msg_handler(@, [fn |-> mh, ctx |-> obj])]
                ELSE msg_h
    /\ reg_state' = IF sh # NullFn
                    THEN [reg_state EXCEPT ![a] = [fn |-> sh, ctx |-> obj]]
                    ELSE reg_state
    /\ reg_msg' = IF mh # NullFn
                  THEN [reg_msg EXCEPT ![a] = [fn |-> mh, ctx |-> obj]]
                  ELSE reg_msg
    /\ replaced' = [replaced EXCEPT ![a] =
                      @ \cup (IF Replaces(reg_state[a], sh, obj) THEN {"state"} ELSE {})
                        \cup (IF Replaces(reg_msg[a], mh, obj) THEN {"message"} ELSE {})]
    /\ UNCHANGED <<appVars, avail_h, requested, queue, cb, reg_avail, payloads, last_call>>
    /\ UNCHANGED <<cellVars, sendVars>>
    /\ UNCHANGED auxVars

\* application_request_service(app, service, instance, major, minor, avail_handler, object)
ApplicationRequestService(a, service, instance, major, fn, obj) ==
    /\ a \in LiveApps
    /\ avail_h' = [avail_h EXCEPT ![a] =
                     setup_avail_handler(@, service, instance, major, [fn |-> fn, ctx |-> obj])]
    /\ requested' = [requested EXCEPT ![a] = @ \cup {<<service, instance>>}]
    /\ reg_avail' = [reg_avail EXCEPT ![a][<<service, instance, major>>] =
                       [fn |-> fn, ctx |-> obj]]
    /\ replaced' = [replaced EXCEPT ![a] =
                      @ \cup (IF Replaces(reg_avail[a][<<service, instance, major>>], fn, obj)
                              THEN {"avail"} ELSE {})]
    /\ UNCHANGED <<appVars, state_h, msg_h, queue, cb, reg_state, reg_msg, payloads,
                   last_call>>
    /\ UNCHANGED <<cellVars, sendVars>>
    /\ UNCHANGED auxVars

\* application_release_service(app, service, instance, major)
ApplicationReleaseService(a, service, instance, major) ==
    /\ a \in LiveApps
    /\ avail_h' = [avail_h EXCEPT ![a] = clear_avail_handler(@, service, instance, major)]
    /\ requested' = [requested EXCEPT ![a] = @ \ {<<service, instance>>}]
    /\ reg_avail' = [reg_avail EXCEPT ![a][<<service, instance, major>>] = NoHandler]
    /\ UNCHANGED <<appVars, state_h, msg_h, queue, cb, reg_state, reg_msg, replaced,
                   payloads, last_call>>
    /\ UNCHANGED <<cellVars, sendVars>>
    /\ UNCHANGED auxVars

(* ------------------------------- events ------------------------------- *)

\* the std::set built from the first n elements of the array
event_groups_set(event_groups, n) == {event_groups[i] : i \in 1..n}

\* variant: the array pointer is looked at only when elements are read
groups_asserted_when_read(event_groups, n) == n = 0 \/ event_groups # NullPtr

\* assert(event_groups != nullptr)
groups_asserted(event_groups, n) == event_groups # NullPtr

\* application_offer_event / application_request_event: assertions, the set,
\* the registration with the Runtime
EventCall(op, a, service, instance, notifier, event_groups, n, is_field) ==
    /\ a \in LiveApps
    /\ event_groups = NullPtr \/ n <= Len(event_groups)
    /\ last_call' = [op |-> op, h |-> a, ret |-> NULL, rt |-> "none",
                     args |-> <<service, instance, notifier, event_groups, n, is_field>>]
    /\ IF groups_asserted(event_groups, n)
       THEN /\ events' = [events EXCEPT ![a] =
                            @ \cup {[op |-> op, service |-> service, instance |-> instance,
                                     notifier |-> notifier,
                                     groups |-> event_groups_set(event_groups, n),
                                     type |-> IF is_field THEN "ET_FIELD" ELSE "ET_EVENT"]}]
            /\ UNCHANGED halted
       ELSE /\ halted' = "abort"
            /\ UNCHANGED events
    /\ UNCHANGED <<appVars, regVars, queue, cb, viewVars, payloads, cellVars, sendVars>>
    /\ UNCHANGED <<held, diag, spawns, joins, stop_pc, stops, runs_on, pending, stop_lost>>

ApplicationOfferEvent(a, service, instance, notifier, event_groups, n, is_field) ==
    EventCall("application_offer_event", a, service, instance, notifier, event_groups, n,
              is_field)

ApplicationRequestEvent(a, service, instance, notifier, event_groups, n, is_field) ==
    EventCall("application_request_event", a, service, instance, notifier, event_groups, n,
              is_field)

(* ------------- facade calls as the dispatch thread sees them ----------- *)

\* a facade call that has made its first call into the Runtime and not its
\* second: its arguments and the handlers registered before it
Entered(op, fn, mh, obj, key, a) ==
    [op |-> op, fn |-> fn, mh |-> mh, ctx |-> obj, key |-> key,
     old_state |-> reg_state[a], old_msg |-> reg_msg[a],
     old_avail |-> IF key \in AvailKeys THEN reg_avail[a][key] ELSE NoHandler]

\* application_register_handlers up to and including setup_state_handler
RegisterHandlersEnter(a, sh, mh, obj) ==
    /\ a \in LiveApps
    /\ pending[a] = Idle
    /\ pending' = [pending EXCEPT ![a] = Entered("register", sh, mh, obj, <<>>, a)]
    /\ state_h' = IF installs(sh)
                  THEN [state_h EXCEPT ![a] = setup_state_handler(@, [fn |-> sh, ctx |-> obj])]
                  ELSE state_h
    /\ reg_state' = IF sh # NullFn
                    THEN [reg_state EXCEPT ![a] = [fn |-> sh, ctx |-> obj]]
                    ELSE reg_state
    /\ reg_msg' = IF mh # NullFn
                  THEN [reg_msg EXCEPT ![a] = [fn |-> mh, ctx |-> obj]]
                  ELSE reg_msg
    /\ replaced' = [replaced EXCEPT ![a] =
                      @ \cup (IF Replaces(reg_state[a], sh, obj) THEN {"state"} ELSE {})
                        \cup (IF Replaces(reg_msg[a], mh, obj) THEN {"message"} ELSE {})]
    /\ UNCHANGED <<appVars, msg_h, avail_h, requested, queue, cb, reg_avail, payloads,
                   last_call>>
    /\ UNCHANGED <<cellVars, sendVars>>
    /\ UNCHANGED <<held, halted, diag, spawns, joins, stop_pc, stops, runs_on, stop_lost,
                   events>>

\* application_register_handlers from setup_msg_handler to its return
RegisterHandlersFinish(a) ==
    /\ pending[a].op = "register"
    /\ pending' = [pending EXCEPT ![a] = Idle]
    /\ msg_h' = IF installs(pending[a].mh)
                THEN [msg_h EXCEPT ![a] =
                        setup_msg_handler(@, [fn |-> pending[a].mh, ctx |-> pending[a].ctx])]
                ELSE msg_h
    /\ UNCHANGED <<appVars, state_h, avail_h, requested, queue, cb, viewVars, payloads,
                   last_call>>
    /\ UNCHANGED <<cellVars, sendVars>>
    /\ UNCHANGED <<held, halted, diag, spawns, joins, stop_pc, stops, runs_on, stop_lost,
                   events>>

\* variant: the service is requested first, the handler installed afterwards
request_service_order_reversed == <<"request_service", "setup_avail_handler">>

\* application_request_service: the calls into the facade, in program order
request_service_order == <<"setup_avail_handler", "request_service">>

\* variant: the service is released first, the handler cleared afterwards
release_service_order_reversed == <<"release_service", "clear_avail_handler">>

\* application_release_service: the calls into the facade, in program order
release_service_order == <<"clear_avail_handler", "release_service">>

\* one call of application_request_service / application_release_service into
\* the facade, with the arguments p of the C call
ServiceStep(a, step, p) ==
    /\ avail_h' =
         IF step = "setup_avail_handler"
         THEN [avail_h EXCEPT ![a] =
                 setup_avail_handler(@, p.key[1], p.key[2], p.key[3],
                                     [fn |-> p.fn, ctx |-> p.ctx])]
         ELSE IF step = "clear_avail_handler"
         THEN [avail_h EXCEPT ![a] = clear_avail_handler(@, p.key[1], p.key[2], p.key[3])]
         ELSE avail_h
    /\ requested' =
         IF step = "request_service"
         THEN [requested EXCEPT ![a] = @ \cup {<<p.key[1], p.key[2]>>}]
         ELSE IF step = "release_service"
         THEN [requested EXCEPT ![a] = @ \ {<<p.key[1], p.key[2]>>}]
         ELSE requested

\* application_request_service up to and including its first call
RequestServiceEnter(a, service, instance, major, fn, obj) ==
    /\ a \in LiveApps
    /\ pending[a] = Idle
    /\ LET p == Entered("request", fn, NullFn, obj, <<service, instance, major>>, a)
       IN /\ pending' = [pending EXCEPT ![a] = p]
          /\ ServiceStep(a, request_service_order[1], p)
    /\ reg_avail' = [reg_avail EXCEPT ![a][<<service, instance, major>>] =
                       [fn |-> fn, ctx |-> obj]]
    /\ replaced' = [replaced EXCEPT ![a] =
                      @ \cup (IF Replaces(reg_avail[a][<<service, instance, major>>], fn, obj)
                              THEN {"avail"} ELSE {})]
    /\ UNCHANGED <<appVars, state_h, msg_h, queue, cb, reg_state, reg_msg, payloads,
                   last_call>>
    /\ UNCHANGED <<cellVars, sendVars>>
    /\ UNCHANGED <<held, halted, diag, spawns, joins, stop_pc, stops, runs_on, stop_lost,
                   events>>

\* application_request_service from its second call to its return
RequestServiceFinish(a) ==
    /\ pending[a].op = "request"
    /\ pending' = [pending EXCEPT ![a] = Idle]
    /\ ServiceStep(a, request_service_order[2], pending[a])
    /\ UNCHANGED <<appVars, state_h, msg_h, queue, cb, viewVars, payloads, last_call>>
    /\ UNCHANGED <<cellVars, sendVars>>
    /\ UNCHANGED <<held, halted, diag, spawns, joins, stop_pc, stops, runs_on, stop_lost,
                   events>>

\* application_release_service up to and including its first call
ReleaseServiceEnter(a, service, instance, major) ==
    /\ a \in LiveApps
    /\ pending[a] = Idle
    /\ LET p == Entered("release", NullFn, NullFn, NullCtx, <<service, instance, major>>, a)
       IN /\ pending' = [pending EXCEPT ![a] = p]
          /\ ServiceStep(a, release_service_order[1], p)
    /\ reg_avail' = [reg_avail EXCEPT ![a][<<service, instance, major>>] = NoHandler]
    /\ UNCHANGED <<appVars, state_h, msg_h, queue, cb, reg_state, reg_msg, replaced,
                   payloads, last_call>>
    /\ UNCHANGED <<cellVars, sendVars>>
    /\ UNCHANGED <<held, halted, diag, spawns, joins, stop_pc, stops, runs_on, stop_lost,
                   events>>

\* application_release_service from its second call to its return
ReleaseServiceFinish(a) ==
    /\ pending[a].op = "release"
    /\ pending' = [pending EXCEPT ![a] = Idle]
    /\ ServiceStep(a, release_service_order[2], pending[a])
    /\ UNCHANGED <<appVars, state_h, msg_h, queue, cb, viewVars, payloads, last_call>>
    /\ UNCHANGED <<cellVars, sendVars>>
    /\ UNCHANGED <<held, halted, diag, spawns, joins, stop_pc, stops, runs_on, stop_lost,
                   events>>

(* ------------------- the Runtime and the dispatch thread --------------- *)

RECURSIVE Queued(_)
Queued(n) == IF n = 0 THEN 0 ELSE Len(queue[n]) + Queued(n - 1)

\* the Runtime has an event for the session (a state change, an availability
\* change, an inbound message) and queues it
RuntimeRaise(a, e) ==
    /\ session[a] = "registered"
    /\ Queued(MaxApps) < MaxQueue
    /\ queue' = [queue EXCEPT ![a] = Append(@, e)]
    /\ UNCHANGED <<appVars, regVars, cb, viewVars, payloads, last_call>>
    /\ UNCHANGED <<cellVars, sendVars>>
    /\ UNCHANGED auxVars

\* the thread of application::start() calls _application->start()
ThreadEnterRun(a) ==
    /\ thr[a] = "spawned"
    /\ thr' = [thr EXCEPT ![a] = "running"]
    /\ UNCHANGED <<app_cell, session, stop_req, dtor_i, regVars, queue, cb, viewVars,
                   payloads, last_call>>
    /\ UNCHANGED <<cellVars, sendVars>>
    /\ UNCHANGED auxVars

\* the handler the Runtime finds for an event
\* the thread of application::start() calls _application->start() after
\* application::stop() has called _application->stop(): nothing in the facade
\* orders the two calls, and a run operation that begins afresh does not see
\* a stop signalled before it was entered
ThreadEnterRunLate(a) ==
    /\ thr[a] = "spawned"
    /\ stop_req[a]
    /\ thr' = [thr EXCEPT ![a] = "running"]
    /\ stop_lost' = [stop_lost EXCEPT ![a] = TRUE]
    /\ UNCHANGED <<app_cell, session, stop_req, dtor_i, regVars, queue, cb, viewVars,
                   payloads, last_call>>
    /\ UNCHANGED <<cellVars, sendVars>>
    /\ UNCHANGED <<held, halted, diag, spawns, joins, stop_pc, stops, runs_on, pending, events>>

Lookup(a, e) ==
    IF e.kind = "state" THEN state_h[a]
    ELSE IF e.kind = "avail" THEN avail_h[a][<<e.service, e.instance, e.major>>]
    ELSE msg_h[a]

FreePayloads == {p \in PlHandles : payloads[p].st = "free"}
NewPayload == CHOOSE p \in FreePayloads : \A q \in FreePayloads : p <= q

\* the run operation takes the next event; with a handler registered for it the
\* callback starts, without one the event is dropped.  The message lambda
\* allocates the payload cell it hands to the C callback.
DispatchTake(a) ==
    /\ thr[a] = "running"
    /\ queue[a] # <<>>
    /\ LET e == Head(queue[a])
           c == Lookup(a, e)
       IN /\ queue' = [queue EXCEPT ![a] = Tail(@)]
          /\ IF c = NoHandler
             THEN UNCHANGED <<thr, cb, payloads, held>>
             ELSE /\ thr' = [thr EXCEPT ![a] = "in_callback"]
                  /\ IF e.kind = "state"
                     THEN /\ cb' = [cb EXCEPT ![a] = state_lambda(c, e.state)]
                          /\ UNCHANGED <<payloads, held>>
                     ELSE IF e.kind = "avail"
                     THEN /\ cb' = [cb EXCEPT ![a] =
                                      avail_lambda(c, e.service, e.instance, e.avail)]
                          /\ UNCHANGED <<payloads, held>>
                     ELSE /\ FreePayloads # {}
                          /\ held' = held \cup {<<"payload", NewPayload>>}
                          /\ cb' = [cb EXCEPT ![a] = msg_lambda(c, e.msg, NewPayload)]
                          /\ payloads' = [payloads EXCEPT ![NewPayload] =
                                            [st |-> "live", has |-> e.msg.has_payload,
                                             data |-> e.msg.data, by |-> "message",
                                             given |-> e.msg.data,
                                             size |-> Len(e.msg.data)]]
    /\ UNCHANGED <<app_cell, session, stop_req, dtor_i, regVars, viewVars, last_call>>
    /\ UNCHANGED <<cellVars, sendVars>>
    /\ UNCHANGED <<halted, diag, spawns, joins, stop_pc, stops, runs_on, pending,
                   stop_lost, events>>

\* the C callback returns to the Runtime
CallbackReturn(a) ==
    /\ thr[a] = "in_callback"
    /\ thr' = [thr EXCEPT ![a] = "running"]
    /\ cb' = [cb EXCEPT ![a] = NoCb]
    /\ UNCHANGED <<app_cell, session, stop_req, dtor_i, regVars, queue, viewVars,
                   payloads, last_call>>
    /\ UNCHANGED <<cellVars, sendVars>>
    /\ UNCHANGED auxVars

\* the stop signal makes the run operation return; the thread function ends
RunReturns(a) ==
    /\ thr[a] = "running"
    /\ stop_req[a] /\ ~stop_lost[a]
    /\ thr' = [thr EXCEPT ![a] = "exited"]
    /\ UNCHANGED <<app_cell, session, stop_req, dtor_i, regVars, queue, cb, viewVars,
                   payloads, last_call>>
    /\ UNCHANGED <<cellVars, sendVars>>
    /\ UNCHANGED auxVars

(* ------------------------------ payloads ------------------------------ *)

LivePayloads == {p \in PlHandles : payloads[p].st = "live"}

\* variant: the cell is not deleted
payload_destroy_leaking(h) == {}

\* payload_destroy(pl): delete pl
payload_destroy(h) == IF h # NULL THEN {h} ELSE {}

PayloadDestroy(h) ==
    /\ h \in {NULL} \cup LivePayloads
    /\ payloads' = [p \in PlHandles |->
                      IF p \in payload_destroy(h) THEN FreePayload ELSE payloads[p]]
    /\ held' = held \ {<<"payload", h>>}
    /\ last_call' = [op |-> "payload_destroy", h |-> h, ret |-> NULL, rt |-> "none"]
    /\ UNCHANGED <<appVars, regVars, queue, cb, viewVars>>
    /\ UNCHANGED <<cellVars, sendVars>>
    /\ UNCHANGED <<halted, diag, spawns, joins, stop_pc, stops, runs_on, pending,
                   stop_lost, events>>

\* what the Runtime's create_payload and create_message give back
CreateOutcomes == {"ok", "null"}

\* application_payload_create(app, data, size): the cell put around the payload
\* of create_payload, no cell for a null result
application_payload_create(data, size, outcome) ==
    IF outcome = "ok"
    THEN [st |-> "live", has |-> TRUE, data |-> create_payload(data, size),
          by |-> "create", given |-> data, size |-> size]
    ELSE FreePayload

ApplicationPayloadCreate(a, data, size, outcome) ==
    /\ a \in LiveApps
    /\ size <= Len(data)
    /\ LET cell == application_payload_create(data, size, outcome)
       IN IF cell.st = "live"
          THEN /\ FreePayloads # {}
               /\ payloads' = [payloads EXCEPT ![NewPayload] = cell]
               /\ held' = held \cup {<<"payload", NewPayload>>}
               /\ last_call' = [op |-> "application_payload_create", h |-> a,
                                ret |-> NewPayload, rt |-> outcome]
          ELSE /\ UNCHANGED <<payloads, held>>
               /\ last_call' = [op |-> "application_payload_create", h |-> a,
                                ret |-> NULL, rt |-> outcome]
    /\ UNCHANGED <<appVars, regVars, queue, cb, viewVars, cellVars, sendVars>>
    /\ UNCHANGED <<halted, diag, spawns, joins, stop_pc, stops, runs_on, pending,
                   stop_lost, events>>

\* payload_create_empty(app): runtime->create_payload()
payload_create_empty(outcome) ==
    IF outcome = "ok"
    THEN [st |-> "live", has |-> TRUE, data |-> <<>>,
          by |-> "create_empty", given |-> <<>>, size |-> 0]
    ELSE FreePayload

PayloadCreateEmpty(a, outcome) ==
    /\ a \in LiveApps
    /\ LET cell == payload_create_empty(outcome)
       IN IF cell.st = "live"
          THEN /\ FreePayloads # {}
               /\ payloads' = [payloads EXCEPT ![NewPayload] = cell]
               /\ held' = held \cup {<<"payload", NewPayload>>}
               /\ last_call' = [op |-> "payload_create_empty", h |-> a,
                                ret |-> NewPayload, rt |-> outcome]
          ELSE /\ UNCHANGED <<payloads, held>>
               /\ last_call' = [op |-> "payload_create_empty", h |-> a,
                                ret |-> NULL, rt |-> outcome]
    /\ UNCHANGED <<appVars, regVars, queue, cb, viewVars, cellVars, sendVars>>
    /\ UNCHANGED <<halted, diag, spawns, joins, stop_pc, stops, runs_on, pending,
                   stop_lost, events>>

\* payload_get_info(pl): data and length of the payload in the cell, {null, 0}
\* for a cell that holds no payload.  The lengths of the model are below 2^32,
\* where the cast to uint32_t changes nothing.
payload_get_info(cell) ==
    IF cell.has
    THEN [data_null |-> FALSE, data |-> cell.data, length |-> Len(cell.data)]
    ELSE [data_null |-> TRUE, data |-> <<>>, length |-> 0]

PayloadGetInfo(h) ==
    /\ h \in {NULL} \cup LivePayloads
    /\ IF assert_pl(h)
       THEN /\ info' = payload_get_info(payloads[h])
            /\ UNCHANGED halted
       ELSE /\ halted' = "abort"
            /\ UNCHANGED info
    /\ last_call' = [op |-> "payload_get_info", h |-> h, ret |-> NULL, rt |-> "none"]
    /\ UNCHANGED <<appVars, regVars, queue, cb, viewVars, payloads, messages, sendVars>>
    /\ UNCHANGED <<held, diag, spawns, joins, stop_pc, stops, runs_on, pending, stop_lost,
                   events>>

(* ------------------------------ messages ------------------------------ *)

FreeMessages == {m \in MsgHandles : messages[m].st = "free"}
NewMessage == CHOOSE m \in FreeMessages : \A n \in FreeMessages : m <= n
LiveMessages == {m \in MsgHandles : messages[m].st = "live"}

\* application_create_message: the message in the new cell
application_create_message(service, instance, method, session_id, mt, rc, data, data_size) ==
    LET msg == [create_message(FALSE) EXCEPT
                  !.service = service, !.instance = instance, !.method = method,
                  !.session = session_id,
                  !.message_type = from_message_type(mt),
                  !.return_code = from_return_code(rc)]
    IN IF data_size > 0
       THEN [msg EXCEPT !.has_payload = TRUE, !.data = create_payload(data, data_size)]
       ELSE msg

ApplicationCreateMessage(a, service, instance, method, session_id, mt, rc, data, data_size, outcome) ==
    /\ a \in LiveApps
    /\ data = NullPtr \/ data_size <= Len(data)
    /\ IF outcome # "ok"
       THEN /\ last_call' = [op |-> "application_create_message", h |-> a,
                             ret |-> NULL, rt |-> outcome, args |-> <<mt, rc>>,
                             data |-> data, data_size |-> data_size]
            /\ UNCHANGED <<messages, held, halted, diag>>
       ELSE IF from_message_type(mt) = "exit" \/ from_return_code(rc) = "exit"
       THEN /\ halted' = "exit"
            /\ diag' = IF from_message_type(mt) = "exit"
                       THEN <<"message_type", mt>> ELSE <<"return_code", rc>>
            /\ last_call' = [op |-> "application_create_message", h |-> a,
                             ret |-> NULL, rt |-> outcome, args |-> <<mt, rc>>,
                             data |-> data, data_size |-> data_size]
            /\ UNCHANGED <<messages, held>>
       ELSE IF data_size > 0 /\ data = NullPtr
       THEN /\ halted' = "abort"
            /\ last_call' = [op |-> "application_create_message", h |-> a,
                             ret |-> NULL, rt |-> outcome, args |-> <<mt, rc>>,
                             data |-> data, data_size |-> data_size]
            /\ UNCHANGED <<messages, held, diag>>
       ELSE /\ FreeMessages # {}
            /\ messages' = [messages EXCEPT ![NewMessage] =
                              [st |-> "live",
                               msg |-> application_create_message(
                                          service, instance, method, session_id, mt, rc,
                                          data, data_size)]]
            /\ held' = held \cup {<<"message", NewMessage>>}
            /\ last_call' = [op |-> "application_create_message", h |-> a,
                             ret |-> NewMessage, rt |-> outcome, args |-> <<mt, rc>>,
                             data |-> data, data_size |-> data_size]
            /\ UNCHANGED <<halted, diag>>
    /\ UNCHANGED <<appVars, regVars, queue, cb, viewVars, payloads, info, sendVars>>
    /\ UNCHANGED <<spawns, joins, stop_pc, stops, runs_on, pending, stop_lost, events>>

\* message_destroy(msg): delete msg
message_destroy(h) == IF h # NULL THEN {h} ELSE {}

MessageDestroy(h) ==
    /\ h \in {NULL} \cup LiveMessages
    /\ messages' = [m \in MsgHandles |->
                      IF m \in message_destroy(h) THEN FreeMessage ELSE messages[m]]
    /\ held' = held \ {<<"message", h>>}
    /\ last_call' = [op |-> "message_destroy", h |-> h, ret |-> NULL, rt |-> "none"]
    /\ UNCHANGED <<appVars, regVars, queue, cb, viewVars, payloads, info, sendVars>>
    /\ UNCHANGED <<halted, diag, spawns, joins, stop_pc, stops, runs_on, pending,
                   stop_lost, events>>

(* ------------------------------- sending ------------------------------ *)

\* the client id the Runtime gave the session of an application
ClientIds == [a \in Apps |-> 4096 + a]

\* _application->send(msg): the Runtime puts its client id and the next
\* session id into a request and transmits; other messages go out as they are
runtime_send(msg, client, next_session) ==
    IF msg.message_type \in {"MT_REQUEST", "MT_REQUEST_NO_RETURN"}
    THEN [msg EXCEPT !.client = client, !.session = next_session]
    ELSE msg

\* variant: the return code of the message is left as the Runtime created it
send_response_without_rc(service, instance, method, client, session_id, major, reliable, rc, data, data_len) ==
    [create_message(reliable) EXCEPT
       !.service = service, !.instance = instance, !.method = method,
       !.client = client, !.session = session_id, !.if_version = major,
       !.message_type = "MT_RESPONSE",
       !.has_payload = TRUE, !.data = create_payload(data, data_len)]

\* application::send_response: the message handed to _application->send
send_response(service, instance, method, client, session_id, major, reliable, rc, data, data_len) ==
    [create_message(reliable) EXCEPT
       !.service = service, !.instance = instance, !.method = method,
       !.client = client, !.session = session_id, !.if_version = major,
       !.message_type = "MT_RESPONSE", !.return_code = rc,
       !.has_payload = TRUE, !.data = create_payload(data, data_len)]

\* application_send_response(app, ..., rc, data, data_len)
ApplicationSendResponse(a, service, instance, method, client, session_id, major, reliable, rc, data, data_len) ==
    /\ a \in LiveApps
    /\ data_len <= Len(data)
    /\ sent < MaxSent
    /\ IF from_return_code(rc) = "exit"
       THEN /\ halted' = "exit"
            /\ diag' = <<"return_code", rc>>
            /\ UNCHANGED <<wire, sent>>
       ELSE /\ wire' = runtime_send(
                          send_response(service, instance, method, client, session_id,
                                        major, reliable, from_return_code(rc), data,
                                        data_len),
                          ClientIds[a], rt_session + 1)
            /\ sent' = sent + 1
            /\ UNCHANGED <<halted, diag>>
    /\ last_call' = [op |-> "application_send_response", h |-> a, ret |-> NULL,
                     rt |-> "none",
                     args |-> <<service, instance, method, client, session_id, major,
                                reliable, rc, data, data_len>>]
    /\ UNCHANGED <<appVars, regVars, queue, cb, viewVars, payloads, cellVars, callers,
                   rt_session>>
    /\ UNCHANGED <<held, spawns, joins, stop_pc, stops, runs_on, pending, stop_lost, events>>

\* variant: an error goes out with the message type error
send_error_typed(service, instance, method, client, session_id, major, reliable, rc) ==
    [create_message(reliable) EXCEPT
       !.service = service, !.instance = instance, !.method = method,
       !.client = client, !.session = session_id, !.if_version = major,
       !.message_type = "MT_ERROR", !.return_code = rc]

\* application::send_error: the message handed to _application->send
send_error(service, instance, method, client, session_id, major, reliable, rc) ==
    [create_message(reliable) EXCEPT
       !.service = service, !.instance = instance, !.method = method,
       !.client = client, !.session = session_id, !.if_version = major,
       !.message_type = "MT_RESPONSE", !.return_code = rc]

\* application_send_error(app, ..., rc) after the assertion
SendErrorCall(a, service, instance, method, client, session_id, major, reliable, rc) ==
    /\ sent < MaxSent
    /\ IF from_return_code(rc) = "exit"
       THEN /\ halted' = "exit"
            /\ diag' = <<"return_code", rc>>
            /\ UNCHANGED <<wire, sent>>
       ELSE /\ wire' = runtime_send(
                          send_error(service, instance, method, client, session_id, major,
                                     reliable, from_return_code(rc)),
                          ClientIds[a], rt_session + 1)
            /\ sent' = sent + 1
            /\ UNCHANGED <<halted, diag>>
    /\ last_call' = [op |-> "application_send_error", h |-> a, ret |-> NULL,
                     rt |-> "none",
                     args |-> <<service, instance, method, client, session_id, major,
                                reliable, rc>>]
    /\ UNCHANGED <<appVars, regVars, queue, cb, viewVars, payloads, cellVars, callers,
                   rt_session>>
    /\ UNCHANGED <<held, spawns, joins, stop_pc, stops, runs_on, pending, stop_lost, events>>

ApplicationSendError(a, service, instance, method, client, session_id, major, reliable, rc) ==
    /\ a \in LiveApps
    /\ SendErrorCall(a, service, instance, method, client, session_id, major, reliable, rc)

\* application_send_error called from a callback on the dispatch thread while
\* application_delete runs on the handle.  The cell is being destroyed and still
\* holds the application: what the call reads in it is not defined, the
\* assertion passes and the call goes on to the Runtime, or it fails.
LateSendError(a, service, instance, method, client, session_id, major, reliable, rc, passes) ==
    /\ app_cell[a] = "deleting"
    /\ thr[a] = "in_callback"
    /\ IF passes
       THEN SendErrorCall(a, service, instance, method, client, session_id, major, reliable, rc)
       ELSE AssertFails("application_send_error", a)

\* application::send_request up to the send: the request the facade builds
send_request(service, instance, method, major, data, data_len, reliable) ==
    [create_request(reliable) EXCEPT
       !.service = service, !.instance = instance, !.method = method,
       !.has_payload = TRUE, !.data = create_payload(data, data_len),
       !.if_version = major]

\* a caller thread enters application_send_request and builds its message
SendRequestBuild(c, a, service, instance, method, major, reliable, data, data_len) ==
    /\ a \in LiveApps
    /\ callers[c].pc \in {"idle", "returned"}
    /\ data_len <= Len(data)
    /\ callers' = [callers EXCEPT ![c] =
                     [pc |-> "built",
                      args |-> <<service, instance, method, major, reliable, data, data_len>>,
                      msg |-> send_request(service, instance, method, major, data, data_len,
                                           reliable),
                      assigned |-> 0, ret |-> 0]]
    /\ UNCHANGED <<appVars, regVars, queue, cb, viewVars, payloads, cellVars, wire, sent,
                   rt_session, last_call>>
    /\ UNCHANGED auxVars

\* the caller thread hands its message to _application->send
SendRequestSend(c, a) ==
    /\ a \in LiveApps
    /\ callers[c].pc = "built"
    /\ sent < MaxSent
    /\ LET m == runtime_send(callers[c].msg, ClientIds[a], rt_session + 1)
       IN /\ callers' = [callers EXCEPT ![c].pc = "sent", ![c].msg = m,
                                        ![c].assigned = rt_session + 1]
          /\ wire' = m
    /\ rt_session' = rt_session + 1
    /\ sent' = sent + 1
    /\ UNCHANGED <<appVars, regVars, queue, cb, viewVars, payloads, cellVars, last_call>>
    /\ UNCHANGED auxVars

\* variant: the session id is asked of the Runtime after the send
send_request_result_latest(msg, latest) == latest

\* return msg->get_session()
send_request_result(msg, latest) == msg.session

\* application_send_request returns to the caller thread
SendRequestReturn(c) ==
    /\ callers[c].pc = "sent"
    /\ callers' = [callers EXCEPT ![c].pc = "returned",
                                  ![c].ret = send_request_result(callers[c].msg, rt_session)]
    /\ UNCHANGED <<appVars, regVars, queue, cb, viewVars, payloads, cellVars, wire, sent,
                   rt_session, last_call>>
    /\ UNCHANGED auxVars

(* --------------------------- specifications --------------------------- *)

Init ==
    /\ app_cell = [a \in Apps |-> "unalloc"]
    /\ session = [a \in Apps |-> "none"]
    /\ thr = [a \in Apps |-> "none"]
    /\ stop_req = [a \in Apps |-> FALSE]
    /\ dtor_i = [a \in Apps |-> 0]
    /\ state_h = [a \in Apps |-> NoHandler]
    /\ msg_h = [a \in Apps |-> NoHandler]
    /\ avail_h = [a \in Apps |-> [k \in AvailKeys |-> NoHandler]]
    /\ requested = [a \in Apps |-> {}]
    /\ queue = [a \in Apps |-> <<>>]
    /\ cb = [a \in Apps |-> NoCb]
    /\ reg_state = [a \in Apps |-> NoHandler]
    /\ reg_msg = [a \in Apps |-> NoHandler]
    /\ reg_avail = [a \in Apps |-> [k \in AvailKeys |-> NoHandler]]
    /\ replaced = [a \in Apps |-> {}]
    /\ payloads = [p \in PlHandles |-> FreePayload]
    /\ messages = [m \in MsgHandles |-> FreeMessage]
    /\ info = NoInfo
    /\ wire = NoMessage
    /\ sent = 0
    /\ callers = [c \in Callers |-> IdleCaller]
    /\ rt_session = 0
    /\ held = {}
    /\ events = [a \in Apps |-> {}]
    /\ stop_lost = [a \in Apps |-> FALSE]
    /\ pending = [a \in Apps |-> Idle]
    /\ runs_on = [a \in Apps |-> "none"]
    /\ stops = [a \in Apps |-> 0]
    /\ stop_pc = [a \in Apps |-> "idle"]
    /\ joins = [a \in Apps |-> 0]
    /\ spawns = [a \in Apps |-> 0]
    /\ diag = <<>>
    /\ halted = "no"
    /\ last_call = NoCall

\* the steps of the dispatch thread and of a destructor under way
Thread(a) ==
    \/ ThreadEnterRun(a)
    \/ DispatchTake(a)
    \/ CallbackReturn(a)
    \/ RunReturns(a)

Destructor(a) ==
    \/ DtorClearAllHandler(a)
    \/ DtorStop(a)
    \/ DtorJoin(a)
    \/ DtorRemoveApplication(a)
    \/ DeleteReturn(a)

\* Life cycle of applications: creation, registration of one handler of each
\* kind, events of each kind, deletion.
LifeMsg == CHOOSE m \in InboundMsgs : m.has_payload
LifeEvents ==
    { [kind |-> "state", state |-> "ST_REGISTERED"],
      [kind |-> "avail", service |-> 1, instance |-> 1, major |-> 1, avail |-> TRUE],
      [kind |-> "message", msg |-> LifeMsg] }

Next ==
    \/ CellLeft /\ CreateApplication("ok")
    \/ \E h \in AppHandles \ {NULL} : ApplicationDelete(h)
    \/ \E a \in Apps :
         \/ Destructor(a)
         \/ Thread(a)
         \/ \E e \in LifeEvents : RuntimeRaise(a, e)
         \/ ApplicationRegisterHandlers(a, "f1", "f1", "o1")
         \/ ApplicationRequestService(a, 1, 1, 1, "f1", "o1")

Spec == Init /\ [][Next]_vars

\* One started application, as create_application leaves it.
InitStarted ==
    /\ app_cell = [a \in Apps |-> IF a = 1 THEN "live" ELSE "unalloc"]
    /\ session = [a \in Apps |-> IF a = 1 THEN "registered" ELSE "none"]
    /\ thr = [a \in Apps |-> IF a = 1 THEN "spawned" ELSE "none"]
    /\ stop_req = [a \in Apps |-> FALSE]
    /\ dtor_i = [a \in Apps |-> 0]
    /\ state_h = [a \in Apps |-> NoHandler]
    /\ msg_h = [a \in Apps |-> NoHandler]
    /\ avail_h = [a \in Apps |-> [k \in AvailKeys |-> NoHandler]]
    /\ requested = [a \in Apps |-> {}]
    /\ queue = [a \in Apps |-> <<>>]
    /\ cb = [a \in Apps |-> NoCb]
    /\ reg_state = [a \in Apps |-> NoHandler]
    /\ reg_msg = [a \in Apps |-> NoHandler]
    /\ reg_avail = [a \in Apps |-> [k \in AvailKeys |-> NoHandler]]
    /\ replaced = [a \in Apps |-> {}]
    /\ payloads = [p \in PlHandles |-> FreePayload]
    /\ messages = [m \in MsgHandles |-> FreeMessage]
    /\ info = NoInfo
    /\ wire = NoMessage
    /\ sent = 0
    /\ callers = [c \in Callers |-> IdleCaller]
    /\ rt_session = 0
    /\ held = {<<"application", 1>>}
    /\ events = [a \in Apps |-> {}]
    /\ stop_lost = [a \in Apps |-> FALSE]
    /\ pending = [a \in Apps |-> Idle]
    /\ runs_on = [a \in Apps |-> IF a = 1 THEN start_thread ELSE "none"]
    /\ stops = [a \in Apps |-> 0]
    /\ stop_pc = [a \in Apps |-> "idle"]
    /\ joins = [a \in Apps |-> 0]
    /\ spawns = [a \in Apps |-> IF a = 1 THEN 1 ELSE 0]
    /\ diag = <<>>
    /\ halted = "no"
    /\ last_call = [op |-> "create_application", h |-> NULL, ret |-> 1, rt |-> "ok"]

\* Availability handlers: request and release of services under every key, and
\* availability changes of every key.
AvailEvents ==
    { [kind |-> "avail", service |-> k[1], instance |-> k[2], major |-> k[3], avail |-> b] :
        k \in AvailKeys, b \in BOOLEAN }

NextAvail ==
    \E a \in Apps :
       \/ ThreadEnterRun(a)
       \/ DispatchTake(a)
       \/ CallbackReturn(a)
       \/ \E e \in AvailEvents : RuntimeRaise(a, e)
       \/ \E k \in AvailKeys, f \in Fns, obj \in Ctxs :
            ApplicationRequestService(a, k[1], k[2], k[3], f, obj)
       \/ \E k \in AvailKeys : ApplicationReleaseService(a, k[1], k[2], k[3])

SpecAvail == InitStarted /\ [][NextAvail]_vars

\* Registration and callback delivery of the three kinds of handler, with every
\* callback and context token.
DispatchEvents ==
    { [kind |-> "state", state |-> "ST_DEREGISTERED"],
      [kind |-> "avail", service |-> 1, instance |-> 1, major |-> 1, avail |-> FALSE],
      [kind |-> "message", msg |-> LifeMsg] }

RegisterCalls ==
    { <<"f1", "f1", "o1">>, <<"f2", "f2", "o2">>, <<"f1", NullFn, "o2">>,
      <<NullFn, "f2", "o1">> }

NextDispatch ==
    \/ \E h \in LivePayloads : PayloadDestroy(h)
    \/ \E a \in Apps :
         \/ ThreadEnterRun(a)
         \/ DispatchTake(a)
         \/ CallbackReturn(a)
         \/ \E e \in DispatchEvents : RuntimeRaise(a, e)
         \/ \E r \in RegisterCalls : ApplicationRegisterHandlers(a, r[1], r[2], r[3])
         \/ \E c \in {<<"f1", "o1">>, <<"f2", "o2">>} :
              ApplicationRequestService(a, 1, 1, 1, c[1], c[2])
         \/ ApplicationReleaseService(a, 1, 1, 1)

SpecDispatch == InitStarted /\ [][NextDispatch]_vars

\* Handles: creation with every outcome of the Runtime, destruction of
\* applications, payloads and messages, null handles passed to the destroy
\* operations.
NextHandles ==
    \/ \E o \in RuntimeOutcomes : (application_create(o) => CellLeft) /\ CreateApplication(o)
    \/ \E h \in AppHandles : ApplicationDelete(h)
    \/ \E h \in {NULL} \cup LivePayloads : PayloadDestroy(h)
    \/ \E h \in {NULL} \cup LiveMessages : MessageDestroy(h)
    \/ \E a \in Apps :
         \/ Destructor(a)
         \/ ThreadEnterRun(a)
         \/ RunReturns(a)
         \/ \E o \in CreateOutcomes : PayloadCreateEmpty(a, o)
         \/ \E o \in CreateOutcomes : ApplicationPayloadCreate(a, <<255>>, 1, o)
         \/ \E o \in CreateOutcomes :
              ApplicationCreateMessage(a, 1, 1, 1, 66, MT_REQUEST, E_OK, <<255>>, 1, o)

SpecHandles == Init /\ [][NextHandles]_vars

\* Payloads: creation from every buffer, the view payload_get_info gives,
\* destruction.
NextPayload ==
    \/ \E h \in LivePayloads : PayloadGetInfo(h)
    \/ \E h \in LivePayloads : PayloadDestroy(h)
    \/ \E a \in Apps :
         \/ \E b \in Buffers, n \in 0..MaxLen, o \in CreateOutcomes :
              ApplicationPayloadCreate(a, b, n, o)
         \/ \E o \in CreateOutcomes : PayloadCreateEmpty(a, o)

SpecPayload == InitStarted /\ [][NextPayload]_vars

\* Responses and errors: the requests answered, with every return code and
\* every payload.
Exchanges ==
    { [service |-> 1, instance |-> 3, method |-> 5, client |-> 7, session |-> 66, major |-> 1],
      [service |-> 2, instance |-> 3, method |-> 5, client |-> 7, session |-> 66, major |-> 1],
      [service |-> 1, instance |-> 4, method |-> 6, client |-> 8, session |-> 67, major |-> 2],
      [service |-> 5, instance |-> 1, method |-> 3, client |-> 66, session |-> 7, major |-> 0] }

NextRespond ==
    \E a \in Apps, x \in Exchanges, reliable \in BOOLEAN, rc \in ReturnCodes :
       \/ \E b \in Buffers :
            ApplicationSendResponse(a, x.service, x.instance, x.method, x.client,
                                    x.session, x.major, reliable, rc, b, Len(b))
       \/ ApplicationSendError(a, x.service, x.instance, x.method, x.client, x.session,
                               x.major, reliable, rc)

SpecRespond == InitStarted /\ [][NextRespond]_vars

\* Requests: caller threads inside application_send_request at the same time.
RequestArgs ==
    { <<1, 3, 5, 1, TRUE, <<255>>, 1>>,
      <<2, 4, 6, 2, FALSE, <<0, 255>>, 2>>,
      <<5, 1, 3, 0, TRUE, <<>>, 0>> }

NextRequest ==
    \E c \in Callers :
       \/ \E a \in Apps, r \in RequestArgs :
            SendRequestBuild(c, a, r[1], r[2], r[3], r[4], r[5], r[6], r[7])
       \/ \E a \in Apps : SendRequestSend(c, a)
       \/ SendRequestReturn(c)

SpecRequest == InitStarted /\ [][NextRequest]_vars

(* ------------------------------ claims -------------------------------- *)

HandlersCleared(a) ==
    /\ state_h[a] = NoHandler
    /\ msg_h[a] = NoHandler
    /\ \A k \in AvailKeys : avail_h[a][k] = NoHandler

\* C1: once application_delete has returned (the handle cell is freed), no
\* callback of that application is running, so none is invoked afterwards:
\* every invocation passes through a state with the thread in a callback.
C1_NoCallbackAfterDelete ==
    \A a \in Apps : app_cell[a] = "freed" => thr[a] # "in_callback" /\ cb[a] = NoCb

\* handlers of the three kinds were registered, the Runtime still holds an
\* event for the application, and application_delete has returned
C1_Witness ==
    \E a \in Apps :
       /\ app_cell[a] = "freed"
       /\ queue[a] # <<>>
       /\ reg_state[a] # NoHandler /\ reg_msg[a] # NoHandler
       /\ reg_avail[a][<<1, 1, 1>>] # NoHandler

\* C2: destruction clears the handlers, then signals the stop and joins the
\* thread, then releases the session: the stop is never signalled with a
\* handler still registered, the thread is joined only after the stop signal,
\* the session is released only with the thread joined, and the call returns
\* only with the session released.
C2_DestructionOrder ==
    \A a \in Apps :
       /\ stop_req[a] => HandlersCleared(a)
       /\ thr[a] = "joined" => stop_req[a]
       /\ session[a] = "removed" => thr[a] = "joined"
       /\ app_cell[a] = "freed" => session[a] = "removed"

\* a destruction that went through all its steps, of an application that had
\* handlers registered and whose thread had entered the run operation
C2_Witness ==
    \E a \in Apps :
       /\ app_cell[a] = "freed" /\ dtor_i[a] = Len(DtorOrder)
       /\ session[a] = "removed" /\ thr[a] = "joined" /\ stop_req[a]
       /\ reg_state[a] # NoHandler
       /\ payloads[1].st = "live"

\* C3: a create_application call in which the Runtime fails to create the
\* session, or init() fails, returns the null handle and changes nothing: no
\* handle cell, no session kept by the facade, no thread.
C3_FailedCreate ==
    [][(/\ last_call' # last_call
        /\ last_call'.op = "create_application"
        /\ last_call'.rt # "ok")
       => (/\ last_call'.ret = NULL
           /\ UNCHANGED <<appVars, regVars, queue, cb, viewVars, payloads>>)]_vars

\* init() failed in the last call while an application created earlier lives on
C3_Witness ==
    /\ last_call.op = "create_application"
    /\ last_call.rt = "init_failed"
    /\ last_call.ret = NULL
    /\ \E a \in Apps : app_cell[a] = "live" /\ thr[a] = "running"

TakesEvent(a) ==
    /\ thr[a] = "running"
    /\ queue[a] # <<>>
    /\ queue'[a] = Tail(queue[a])

\* C8: when the dispatch thread takes an availability change for a key, the
\* callback the caller last registered with application_request_service for
\* exactly that key (and has not released) is invoked with the service and
\* instance of the change and with available / unavailable as the change
\* says; with nothing registered for that key no callback is invoked, whatever
\* is registered for other keys.
C8_AvailabilityCallback ==
    [][\A a \in Apps :
         (TakesEvent(a) /\ Head(queue[a]).kind = "avail") =>
            LET e == Head(queue[a])
                r == reg_avail[a][<<e.service, e.instance, e.major>>]
            IN IF r = NoHandler
               THEN thr'[a] = "running" /\ cb'[a] = NoCb
               ELSE /\ thr'[a] = "in_callback"
                    /\ cb'[a] = [kind |-> "avail", fn |-> r.fn, ctx |-> r.ctx,
                                 service |-> e.service, instance |-> e.instance,
                                 avail |-> IF e.avail THEN AS_AVAILABLE
                                                      ELSE AS_UNAVAILABLE]]_vars

\* an availability callback runs with "available" for instance 2 while another
\* callback is registered for another key
C8_Witness ==
    \E a \in Apps :
       /\ thr[a] = "in_callback"
       /\ cb[a].kind = "avail"
       /\ cb[a].instance = 2 /\ cb[a].avail = AS_AVAILABLE
       /\ \E k \in AvailKeys :
            /\ k[2] # 2
            /\ reg_avail[a][k] # NoHandler
            /\ reg_avail[a][k] # [fn |-> cb[a].fn, ctx |-> cb[a].ctx]

\* the caller's registration an event is for
Registered(a, e) ==
    IF e.kind = "state" THEN reg_state[a]
    ELSE IF e.kind = "avail" THEN reg_avail[a][<<e.service, e.instance, e.major>>]
    ELSE reg_msg[a]

\* C9: every callback that starts does so with the callback and the context
\* of the caller's latest registration for its slot or key; with a handler
\* replaced, no callback starting afterwards uses the earlier callback or
\* context.
C9_ReplacedHandler ==
    [][\A a \in Apps :
         (TakesEvent(a) /\ thr'[a] = "in_callback") =>
            /\ cb'[a].kind = Head(queue[a]).kind
            /\ cb'[a].fn = Registered(a, Head(queue[a])).fn
            /\ cb'[a].ctx = Registered(a, Head(queue[a])).ctx]_vars

\* handlers of the three kinds have been replaced by different ones and a
\* state callback runs with the latest
C9_Witness ==
    \E a \in Apps :
       /\ replaced[a] = {"state", "message", "avail"}
       /\ thr[a] = "in_callback"
       /\ cb[a].kind = "state"
       /\ reg_state[a] = [fn |-> cb[a].fn, ctx |-> cb[a].ctx]

\* C4: a send_response call hands exactly one message to the Runtime; its
\* service, instance, method, client id, session id and interface version are
\* the arguments, its message type is response (0x80), its return code is the
\* given one, and its payload is the given bytes.
C4_SendResponse ==
    [][(last_call' # last_call /\ last_call'.op = "application_send_response") =>
         LET g == last_call'.args
         IN /\ sent' = sent + 1
            /\ wire'.service = g[1] /\ wire'.instance = g[2] /\ wire'.method = g[3]
            /\ wire'.client = g[4] /\ wire'.session = g[5] /\ wire'.if_version = g[6]
            /\ wire'.is_reliable = g[7]
            /\ cast_message_type(wire'.message_type) = MT_RESPONSE
            /\ cast_return_code(wire'.return_code) = g[8]
            /\ wire'.has_payload /\ wire'.data = SubSeq(g[9], 1, g[10])]_vars

\* the response of the example: client 0x07, session 0x0042, unknown-method,
\* with a payload of two bytes, on the wire with type 0x80 and return code 0x03
C4_Witness ==
    /\ last_call.op = "application_send_response"
    /\ last_call.args[4] = 7 /\ last_call.args[5] = 66
    /\ last_call.args[8] = E_UNKNOWN_METHOD
    /\ Len(last_call.args[9]) = 2
    /\ wire.client = 7 /\ wire.session = 66
    /\ cast_message_type(wire.message_type) = 128
    /\ cast_return_code(wire.return_code) = 3
    /\ wire.data = last_call.args[9]
    /\ sent = 2

\* C5: a send_error call hands exactly one message to the Runtime; its
\* message type is response (0x80) and not error (0x81), its return code is
\* the given one, client and session id are the arguments, and it has no
\* payload attached.
C5_SendError ==
    [][(last_call' # last_call /\ last_call'.op = "application_send_error") =>
         LET g == last_call'.args
         IN /\ sent' = sent + 1
            /\ cast_message_type(wire'.message_type) = MT_RESPONSE
            /\ cast_message_type(wire'.message_type) # MT_ERROR
            /\ cast_return_code(wire'.return_code) = g[8]
            /\ wire'.client = g[4] /\ wire'.session = g[5]
            /\ wire'.service = g[1] /\ wire'.instance = g[2] /\ wire'.method = g[3]
            /\ wire'.if_version = g[6]
            /\ ~wire'.has_payload /\ wire'.data = <<>>]_vars

\* an error with return code not-reachable for client 8, session 67 went out
\* after a response with a payload
C5_Witness ==
    /\ last_call.op = "application_send_error"
    /\ last_call.args[8] = E_NOT_REACHABLE
    /\ last_call.args[4] = 8 /\ last_call.args[5] = 67
    /\ wire.message_type = "MT_RESPONSE" /\ wire.return_code = "E_NOT_REACHABLE"
    /\ ~wire.has_payload
    /\ sent = 2

\* the fields of a request that send_request sets, against the arguments
RequestFieldsSet(k) ==
    LET g == k.args
    IN /\ k.msg.service = g[1] /\ k.msg.instance = g[2] /\ k.msg.method = g[3]
       /\ k.msg.if_version = g[4] /\ k.msg.is_reliable = g[5]
       /\ k.msg.has_payload /\ k.msg.data = SubSeq(g[6], 1, g[7])
       /\ k.msg.message_type = "MT_REQUEST"

\* C6: the request a send_request call builds has service, instance, method,
\* payload and interface version of the arguments and neither client nor
\* session id set by the facade; the call returns the session id the Runtime
\* assigned to that very message at send time, and with several caller
\* threads in send_request at once no call returns the session id of another
\* call's message.
C6_SendRequest ==
    \A c \in Callers :
       LET k == callers[c]
       IN /\ k.pc = "built" =>
               RequestFieldsSet(k) /\ k.msg.client = 0 /\ k.msg.session = 0
          /\ k.pc \in {"sent", "returned"} =>
               RequestFieldsSet(k) /\ k.msg.session = k.assigned /\ k.assigned # 0
          /\ k.pc = "returned" =>
               /\ k.ret = k.assigned
               /\ \A d \in Callers \ {c} :
                    callers[d].pc \in {"sent", "returned"} => callers[d].assigned # k.ret

\* caller t1 has returned with its session id although caller t2 sent its
\* request after t1's and before t1 returned
C6_Witness ==
    /\ callers["t1"].pc = "returned"
    /\ callers["t2"].pc = "sent"
    /\ callers["t2"].assigned = rt_session
    /\ callers["t1"].assigned < callers["t2"].assigned
    /\ callers["t1"].ret = callers["t1"].assigned
    /\ wire = callers["t2"].msg

\* C7: payload_get_info of a payload made by application_payload_create from
\* a buffer and its length returns that length and those bytes; of a payload
\* made by payload_create_empty it returns length 0.
C7_PayloadRoundTrip ==
    last_call.op = "payload_get_info" =>
       LET p == payloads[last_call.h]
       IN /\ (p.by = "create" /\ p.size = Len(p.given)) =>
               /\ ~info.data_null
               /\ info.length = Len(p.given)
               /\ info.data = p.given
          /\ p.by = "create_empty" => info.length = 0

\* the info of a payload created from a buffer of the greatest length
C7_Witness ==
    /\ last_call.op = "payload_get_info"
    /\ payloads[last_call.h].by = "create"
    /\ Len(payloads[last_call.h].given) = MaxLen
    /\ info.length = MaxLen
    /\ info.data = payloads[last_call.h].given

\* C10: application_delete, payload_destroy and message_destroy with the null
\* handle change nothing: no application, message or payload cell, no dispatch
\* thread, nothing of the Runtime's state.
C10_NullDestroy ==
    [][(/\ last_call' # last_call
        /\ last_call'.op \in {"application_delete", "payload_destroy", "message_destroy"}
        /\ last_call'.h = NULL)
       => UNCHANGED <<appVars, regVars, queue, cb, viewVars, payloads, cellVars,
                      sendVars>>]_vars

\* application_delete(NULL) was the last call, with an application, a payload
\* and a message alive and the dispatch thread running
C10_Witness ==
    /\ last_call.op = "application_delete" /\ last_call.h = NULL
    /\ \E a \in Apps : app_cell[a] = "live" /\ thr[a] = "running" /\ session[a] = "registered"
    /\ LivePayloads # {}
    /\ LiveMessages # {}

(* ------------------- the assertions of the boundary -------------------- *)

\* inbound messages with and without a payload, and calls with live and null handles
NextAssert ==
    /\ halted = "no"
    /\ \/ \E h \in {NULL} \cup LivePayloads : PayloadGetInfo(h)
       \/ \E h \in LivePayloads : PayloadDestroy(h)
       \/ \E h \in AppHandles : ApplicationGetName(h)
       \/ \E op \in AppOps : AssertFails(op, NULL)
       \/ \E a \in Apps :
            \/ ThreadEnterRun(a)
            \/ DispatchTake(a)
            \/ CallbackReturn(a)
            \/ \E m \in InboundMsgs : RuntimeRaise(a, [kind |-> "message", msg |-> m])
            \/ ApplicationRegisterHandlers(a, NullFn, "f1", "o1")
            \/ PayloadCreateEmpty(a, "ok")
            \/ \E x \in Exchanges :
                 ApplicationSendError(a, x.service, x.instance, x.method, x.client, x.session, x.major, TRUE, E_NOT_OK)

SpecAssert == InitStarted /\ [][NextAssert]_vars

(* ------------------ enumerator values from the caller ------------------ *)

\* values of enum return_code and enum message_type a C caller can pass: two
\* enumerators each and two values that are none
ReturnCodeInputs == {E_OK, E_UNKNOWN, 11, 254}
MessageTypeInputs == {MT_REQUEST, MT_UNKNOWN, 3, 130}

NextEnum ==
    /\ halted = "no"
    /\ \/ \E h \in LiveMessages : MessageDestroy(h)
       \/ \E a \in Apps, rc \in ReturnCodeInputs :
            LET x == CHOOSE y \in Exchanges : y.service = 5
            IN \/ ApplicationSendResponse(a, x.service, x.instance, x.method, x.client, x.session, x.major, TRUE, rc, <<255>>, 1)
               \/ ApplicationSendError(a, x.service, x.instance, x.method, x.client, x.session, x.major, TRUE, rc)
               \/ \E mt \in MessageTypeInputs, o \in CreateOutcomes :
                    ApplicationCreateMessage(a, 1, 1, 1, 66, mt, rc, <<255>>, 1, o)

SpecEnum == InitStarted /\ [][NextEnum]_vars

(* ------------------------ translated enumerators ----------------------- *)

\* pairs of a message type and a return code in which every recognized value
\* of either occurs
EnumPairs ==
    { <<MT_REQUEST, E_OK>>, <<MT_REQUEST_NO_RETURN, E_NOT_OK>>,
      <<MT_NOTIFICATION, E_UNKNOWN_SERVICE>>, <<MT_REQUEST_ACK, E_UNKNOWN_METHOD>>,
      <<MT_REQUEST_NO_RETURN_ACK, E_NOT_READY>>, <<MT_NOTIFICATION_ACK, E_NOT_REACHABLE>>,
      <<MT_RESPONSE, E_TIMEOUT>>, <<MT_ERROR, E_WRONG_PROTOCOL_VERSION>>,
      <<MT_RESPONSE_ACK, E_WRONG_INTERFACE_VERSION>>, <<MT_ERROR_ACK, E_MALFORMED_MESSAGE>>,
      <<MT_UNKNOWN, E_WRONG_MESSAGE_TYPE>>, <<MT_UNKNOWN, E_UNKNOWN>> }

NextTranslate ==
    \/ \E h \in LiveMessages : MessageDestroy(h)
    \/ \E a \in Apps, e \in EnumPairs :
         ApplicationCreateMessage(a, 1, 1, 1, 66, e[1], e[2], <<>>, 0, "ok")
    \/ \E a \in Apps, rc \in ReturnCodes :
         ApplicationSendError(a, 1, 1, 1, 7, 66, 1, TRUE, rc)

SpecTranslate == InitStarted /\ [][NextTranslate]_vars

(* ------------------------------- stop() ------------------------------- *)

\* an application object made by create, which has run start(), or made by the
\* constructor alone, whose thread object is empty
InitStop ==
    /\ app_cell = [a \in Apps |-> IF a = 1 THEN "live" ELSE "unalloc"]
    /\ session = [a \in Apps |-> IF a = 1 THEN "registered" ELSE "none"]
    /\ thr \in {[a \in Apps |-> IF a = 1 THEN t ELSE "none"] : t \in {"none", "spawned"}}
    /\ stop_req = [a \in Apps |-> FALSE]
    /\ dtor_i = [a \in Apps |-> 0]
    /\ state_h = [a \in Apps |-> NoHandler]
    /\ msg_h = [a \in Apps |-> NoHandler]
    /\ avail_h = [a \in Apps |-> [k \in AvailKeys |-> NoHandler]]
    /\ requested = [a \in Apps |-> {}]
    /\ queue = [a \in Apps |-> <<>>]
    /\ cb = [a \in Apps |-> NoCb]
    /\ reg_state = [a \in Apps |-> NoHandler]
    /\ reg_msg = [a \in Apps |-> NoHandler]
    /\ reg_avail = [a \in Apps |-> [k \in AvailKeys |-> NoHandler]]
    /\ replaced = [a \in Apps |-> {}]
    /\ payloads = [p \in PlHandles |-> FreePayload]
    /\ messages = [m \in MsgHandles |-> FreeMessage]
    /\ info = NoInfo
    /\ wire = NoMessage
    /\ sent = 0
    /\ callers = [c \in Callers |-> IdleCaller]
    /\ rt_session = 0
    /\ held = {<<"application", 1>>}
    /\ events = [a \in Apps |-> {}]
    /\ stop_lost = [a \in Apps |-> FALSE]
    /\ pending = [a \in Apps |-> Idle]
    /\ runs_on = [a \in Apps |-> IF a = 1 THEN start_thread ELSE "none"]
    /\ stops = [a \in Apps |-> 0]
    /\ stop_pc = [a \in Apps |-> "idle"]
    /\ joins = [a \in Apps |-> 0]
    /\ spawns = [a \in Apps |-> IF thr[a] = "spawned" THEN 1 ELSE 0]
    /\ diag = <<>>
    /\ halted = "no"
    /\ last_call = [op |-> "create_application", h |-> NULL, ret |-> 1, rt |-> "ok"]

NextStop ==
    /\ halted = "no"
    /\ \E a \in Apps :
         \/ StopBegin(a)
         \/ StopJoin(a)
         \/ ThreadEnterRun(a)
         \/ DispatchTake(a)
         \/ CallbackReturn(a)
         \/ RunReturns(a)
         \/ \E st \in {"ST_REGISTERED", "ST_DEREGISTERED"} :
              RuntimeRaise(a, [kind |-> "state", state |-> st])
         \/ \E f \in Fns : ApplicationRegisterHandlers(a, f, NullFn, "o1")

SpecStop == InitStop /\ [][NextStop]_vars

(* --------------------- calls while a delete runs ----------------------- *)

NextLate ==
    /\ halted = "no"
    /\ \/ CellLeft /\ CreateApplication("ok")
       \/ \E h \in AppHandles \ {NULL} : ApplicationDelete(h)
       \/ \E a \in Apps :
            \/ Destructor(a)
            \/ Thread(a)
            \/ RuntimeRaise(a, [kind |-> "state", state |-> "ST_REGISTERED"])
            \/ ApplicationRegisterHandlers(a, "f1", NullFn, "o1")
            \/ ApplicationSendError(a, 1, 1, 1, 7, 66, 1, TRUE, E_NOT_OK)
            \/ \E passes \in BOOLEAN :
                 LateSendError(a, 1, 1, 1, 7, 66, 1, TRUE, E_NOT_OK, passes)

SpecLate == Init /\ [][NextLate]_vars

(* -------------------------- inbound outcomes --------------------------- *)

\* a response with each of the return codes the Runtime can report
InboundCodes == {[LifeMsg EXCEPT !.return_code = rc] : rc \in DOMAIN vsomeip_return_code_e}

NextInbound ==
    /\ halted = "no"
    /\ \/ \E h \in LivePayloads : PayloadDestroy(h)
       \/ \E a \in Apps :
            \/ ThreadEnterRun(a)
            \/ DispatchTake(a)
            \/ CallbackReturn(a)
            \/ \E m \in InboundCodes : RuntimeRaise(a, [kind |-> "message", msg |-> m])
            \/ ApplicationRegisterHandlers(a, NullFn, "f1", "o1")

SpecInbound == InitStarted /\ [][NextInbound]_vars

\* Caller threads and the dispatch thread: registration, service requests
\* and sends of the callers, deliveries of the dispatch thread.
NextCallers ==
    \/ NextDispatch
    \/ \E a \in Apps : ApplicationSendError(a, 1, 3, 5, 7, 66, 1, TRUE, E_NOT_REACHABLE)

SpecCallers == InitStarted /\ [][NextCallers]_vars

\* Facade calls interleaved with the dispatch thread between their calls into
\* the Runtime: handlers installed, replaced and cleared while events arrive.
NextSteps ==
    \/ \E h \in LivePayloads : PayloadDestroy(h)
    \/ \E a \in Apps :
         \/ ThreadEnterRun(a)
         \/ DispatchTake(a)
         \/ CallbackReturn(a)
         \/ \E e \in DispatchEvents : RuntimeRaise(a, e)
         \/ \E r \in RegisterCalls : RegisterHandlersEnter(a, r[1], r[2], r[3])
         \/ RegisterHandlersFinish(a)
         \/ \E c \in {<<"f1", "o1">>, <<"f2", "o2">>} :
              RequestServiceEnter(a, 1, 1, 1, c[1], c[2])
         \/ RequestServiceFinish(a)
         \/ ReleaseServiceEnter(a, 1, 1, 1)
         \/ ReleaseServiceFinish(a)

SpecSteps == InitStarted /\ [][NextSteps]_vars

\* Deletion against the dispatch thread: the destructor and the thread of
\* start() each take their steps whenever they can, the callback of the caller
\* returns, and the run operation may be entered before or after the stop
\* signal.
NextTerminate ==
    \/ CellLeft /\ CreateApplication("ok")
    \/ \E h \in AppHandles \ {NULL} : ApplicationDelete(h)
    \/ \E a \in Apps :
         \/ Destructor(a)
         \/ Thread(a)
         \/ ThreadEnterRunLate(a)
         \/ \E e \in LifeEvents : RuntimeRaise(a, e)
         \/ ApplicationRegisterHandlers(a, "f1", "f1", "o1")

Scheduling ==
    \A a \in Apps :
       /\ WF_vars(Destructor(a))
       /\ WF_vars(ThreadEnterRun(a) \/ ThreadEnterRunLate(a))
       /\ WF_vars(DispatchTake(a))
       /\ WF_vars(CallbackReturn(a))
       /\ WF_vars(RunReturns(a))

SpecTerminate == Init /\ [][NextTerminate]_vars /\ Scheduling

\* Arrays and counts: event groups and message data passed as a null pointer
\* or an array, with every count the array allows.
NextCounts ==
    /\ halted = "no"
    /\ \/ \E h \in LiveMessages : MessageDestroy(h)
       \/ \E a \in Apps, g \in {NullPtr, <<>>, <<1>>, <<1, 2>>}, n \in 0..MaxLen :
            \/ ApplicationOfferEvent(a, 1, 1, 32769, g, n, TRUE)
            \/ ApplicationRequestEvent(a, 1, 1, 32769, g, n, FALSE)
       \/ \E a \in Apps, d \in {NullPtr, <<255>>}, n \in 0..MaxLen :
            ApplicationCreateMessage(a, 1, 1, 1, 66, MT_REQUEST, E_OK, d, n, "ok")

SpecCounts == InitStarted /\ [][NextCounts]_vars

\* Several applications in one process: each is created, registers a state
\* handler, receives state changes and is deleted, in any order with the
\* others.
NextShared ==
    \/ CreateApplication("ok")
    \/ \E h \in AppHandles \ {NULL} : ApplicationDelete(h)
    \/ \E a \in Apps :
         \/ Destructor(a)
         \/ Thread(a)
         \/ RuntimeRaise(a, [kind |-> "state", state |-> "ST_REGISTERED"])
         \/ ApplicationRegisterHandlers(a, "f1", NullFn, "o1")

SpecShared == Init /\ [][NextShared]_vars

\* Delivered payloads: messages with and without payload are delivered, the
\* caller reads and destroys the handles it was given, further events arrive
\* and the application is deleted, in any order.
NextSnapshot ==
    \/ \E h \in LivePayloads : PayloadDestroy(h) \/ PayloadGetInfo(h)
    \/ \E h \in AppHandles \ {NULL} : ApplicationDelete(h)
    \/ \E a \in Apps :
         \/ Destructor(a)
         \/ Thread(a)
         \/ \E m \in InboundMsgs : RuntimeRaise(a, [kind |-> "message", msg |-> m])
         \/ RuntimeRaise(a, [kind |-> "state", state |-> "ST_REGISTERED"])
         \/ ApplicationRegisterHandlers(a, "f1", "f1", "o1")

SpecSnapshot == InitStarted /\ [][NextSnapshot]_vars

(* ------------------------------ handle cells --------------------------- *)

\* the handle cells that are allocated
Allocated ==
    {<<"application", a>> : a \in {b \in Apps : app_cell[b] \in {"live", "deleting"}}}
      \cup {<<"payload", p>> : p \in LivePayloads}
      \cup {<<"message", m>> : m \in LiveMessages}

\* the cells whose application_delete has been called and has not returned
InDestroy == {<<"application", a>> : a \in {b \in Apps : app_cell[b] = "deleting"}}

CreateOps ==
    [create_application |-> "application", application_payload_create |-> "payload",
     payload_create_empty |-> "payload", application_create_message |-> "message"]

DestroyOps == [payload_destroy |-> "payload", message_destroy |-> "message"]

\* C11: a create operation that succeeds allocates exactly one new cell and one
\* that fails allocates none; a destroy operation on a non-null handle frees
\* exactly the cell of that handle; the allocated cells are always the handles
\* the caller still holds and the ones whose delete is running, so that no cell
\* is left once every handle has been destroyed
C11_HandleCells ==
    [][/\ held' \cup InDestroy' = Allocated'
       /\ held' \cap InDestroy' = {}
       /\ (last_call' # last_call /\ last_call'.op \in DOMAIN CreateOps) =>
             IF last_call'.ret # NULL
             THEN LET c == <<CreateOps[last_call'.op], last_call'.ret>>
                  IN c \notin Allocated /\ Allocated' = Allocated \cup {c}
             ELSE Allocated' = Allocated
       /\ (last_call' # last_call /\ last_call'.op \in DOMAIN DestroyOps
              /\ last_call'.h # NULL) =>
             LET c == <<DestroyOps[last_call'.op], last_call'.h>>
             IN c \in Allocated /\ Allocated' = Allocated \ {c}
       /\ \A a \in Apps :
             (app_cell[a] = "deleting" /\ app_cell'[a] = "freed") =>
               Allocated' = Allocated \ {<<"application", a>>}]_vars

\* every handle that was returned has been destroyed, a payload handle last
C11_Witness ==
    /\ \E a \in Apps : app_cell[a] = "freed"
    /\ last_call.op = "payload_destroy" /\ last_call.h # NULL
    /\ held = {} /\ Allocated = {}

\* the operations that consume a handle and give something back
ConsumingOps == AppOps \cup {"payload_get_info"}

\* C12 as stated: no consuming operation returns for a null handle or for a cell
\* that holds no object
C12_NoResultWithoutObject ==
    (halted = "no" /\ last_call.op \in ConsumingOps) =>
      /\ last_call.h # NULL
      /\ last_call.op \in AppOps => app_cell[last_call.h] = "live"
      /\ last_call.op = "payload_get_info" =>
            last_call.h \in LivePayloads /\ payloads[last_call.h].has

\* C12: an operation on an application handle asserts that the handle is not
\* null and that its cell holds an application, payload_get_info asserts that
\* its handle is not null; a call that fails its assertion aborts without a
\* result and without a change to the Runtime, and payload_get_info on a cell
\* that holds no payload returns {null, 0}
C12_Asserted ==
    [][/\ halted' = "abort" =>
            /\ last_call'.op \in ConsumingOps /\ last_call'.h = NULL
            /\ last_call'.ret = NULL /\ info' = info
            /\ UNCHANGED <<appVars, regVars, queue, cb, viewVars, payloads, cellVars,
                           sendVars, held>>
       /\ (last_call' # last_call /\ last_call'.op \in AppOps /\ halted' = "no") =>
            last_call'.h # NULL /\ app_cell[last_call'.h] = "live"
       /\ (last_call' # last_call /\ last_call'.op = "payload_get_info" /\ halted' = "no") =>
            /\ last_call'.h \in LivePayloads
            /\ ~payloads[last_call'.h].has => info' = NoInfo]_vars

\* a send with the null handle has aborted the process
C12_Witness ==
    halted = "abort" /\ last_call.op = "application_send_response" /\ last_call.h = NULL

\* the calls that convert an enumerator of the caller with from()
ConvertingOps ==
    {"application_send_response", "application_send_error", "application_create_message"}

\* the call got a return_code or a message_type outside the recognized set
InvalidEnum(call) ==
    IF call.op = "application_create_message"
    THEN call.args[1] \notin MessageTypes \/ call.args[2] \notin ReturnCodes
    ELSE call.args[8] \notin ReturnCodes

\* C13: a send_response, send_error or create_message call with a return code
\* or message type outside the recognized set ends the process with a
\* diagnostic, transmits nothing and returns no message handle
C13_InvalidEnumTerminates ==
    [][(last_call' # last_call /\ last_call'.op \in ConvertingOps /\ InvalidEnum(last_call')) =>
         /\ halted' = "exit" /\ diag' # <<>>
         /\ wire' = wire /\ sent' = sent
         /\ messages' = messages /\ last_call'.ret = NULL]_vars

\* C14: a recognized message type or return code is translated to the Runtime
\* enumerator that has the same name and the same numeric value, and the
\* header made of the message built gives the original value back
C14_EnumRoundTrip ==
    [][/\ (last_call' # last_call /\ last_call'.op = "application_create_message"
             /\ last_call'.ret # NULL) =>
            LET m == messages'[last_call'.ret].msg
                mt == last_call'.args[1]
                rc == last_call'.args[2]
            IN /\ enum_message_type[m.message_type] = mt
               /\ vsomeip_message_type_e[m.message_type] = mt
               /\ enum_return_code[m.return_code] = rc
               /\ vsomeip_return_code_e[m.return_code] = rc
               /\ make_message_header(m).message_type = mt
               /\ make_message_header(m).return_code = rc
       /\ (last_call' # last_call /\ last_call'.op = "application_send_error") =>
            LET rc == last_call'.args[8]
            IN /\ enum_return_code[wire'.return_code] = rc
               /\ vsomeip_return_code_e[wire'.return_code] = rc
               /\ make_message_header(wire').return_code = rc]_vars

\* a message was built with the type error-ack and the code malformed-message
C14_Witness ==
    \E m \in LiveMessages :
      /\ messages[m].msg.message_type = "MT_ERROR_ACK"
      /\ messages[m].msg.return_code = "E_MALFORMED_MESSAGE"
      /\ last_call.op = "application_create_message"
      /\ last_call.args = <<MT_ERROR_ACK, E_MALFORMED_MESSAGE>>

(* ------------------------------ the thread ----------------------------- *)

\* the dispatch threads of an application: created by start() and not joined
Threads(a) == spawns[a] - joins[a]

\* started: create has run start(), and no stop() has returned
StartedPhase(a) ==
    \/ app_cell[a] = "live"
    \/ /\ app_cell[a] = "deleting"
       /\ dtor_i[a] < Len(DtorOrder)
       /\ DtorOrder[dtor_i[a] + 1] \in {"clear_all_handler", "stop", "join"}

C15_StopIdempotent ==
    /\ halted = "no"
    /\ \A a \in Apps :
         /\ joins[a] <= 1 /\ joins[a] <= spawns[a]
         /\ (stop_pc[a] = "join" /\ (stops[a] >= 1 \/ spawns[a] = 0)) =>
              ~joinable(thr[a]) /\ ENABLED StopJoin(a)

\* stop() has returned twice on an application whose thread was joined once
C15_Witness ==
    \E a \in Apps : stops[a] = 2 /\ joins[a] = 1 /\ thr[a] = "joined" /\ halted = "no"

(* ------------------------------ life cycle ----------------------------- *)

\* the phase of an application: 0 not created, 1 started, 2 stopping (stop()
\* has signalled the Runtime, the thread is not joined), 3 stopped
Phase(a) ==
    IF app_cell[a] = "unalloc" THEN 0
    ELSE IF ~stop_req[a] THEN 1
    ELSE IF thr[a] \in {"spawned", "running", "in_callback", "exited"} THEN 2
    ELSE 3

\* a send operation was handed to the Runtime in this step
SendExecutes == sent' # sent

C18_ContextToken ==
    [][\A a \in Apps :
         /\ state_h'[a] # NoHandler => state_h'[a].ctx = reg_state'[a].ctx
         /\ msg_h'[a] # NoHandler => msg_h'[a].ctx = reg_msg'[a].ctx
         /\ \A k \in AvailKeys :
              avail_h'[a][k] # NoHandler => avail_h'[a][k].ctx = reg_avail'[a][k].ctx
         /\ (TakesEvent(a) /\ thr'[a] = "in_callback") =>
              /\ cb'[a].ctx = Lookup(a, Head(queue[a])).ctx
              /\ cb'[a].ctx # NullCtx
         /\ (thr[a] = "in_callback" /\ thr'[a] = "in_callback") => cb'[a].ctx = cb[a].ctx]_vars

\* an availability callback runs with the token of its own registration while
\* the state handler was registered with a different token
C18_Witness ==
    \E a \in Apps :
      /\ thr[a] = "in_callback" /\ cb[a].kind = "avail"
      /\ cb[a].ctx = "o1" /\ reg_avail[a][<<1, 1, 1>>].ctx = "o1"
      /\ reg_state[a].ctx = "o2" /\ reg_msg[a].ctx = "o2"

(* --------------------------- inbound headers --------------------------- *)

\* the header of a starting message callback has the fields of the message
HeaderFields(hdr, msg) ==
    /\ hdr.service = msg.service /\ hdr.instance = msg.instance
    /\ hdr.method = msg.method /\ hdr.client = msg.client
    /\ hdr.session = msg.session /\ hdr.proto_version = msg.proto_version
    /\ hdr.if_version = msg.if_version
    /\ hdr.message_type = vsomeip_message_type_e[msg.message_type]
    /\ hdr.return_code = vsomeip_return_code_e[msg.return_code]
    /\ hdr.is_initial = msg.is_initial /\ hdr.is_reliable = msg.is_reliable

\* the header's data is the byte buffer of the payload in the cell delivered
HeaderData(hdr, cell) ==
    /\ hdr.data_null = payload_get_info(cell).data_null
    /\ hdr.data = payload_get_info(cell).data

\* C19: a message callback starts with a header whose fields are those of the
\* message, whose data is the buffer of the payload delivered with it, and
\* whose length is the length payload_get_info gives for that payload
C19_HeaderMatchesMessage ==
    [][\A a \in Apps :
         (TakesEvent(a) /\ thr'[a] = "in_callback" /\ cb'[a].kind = "message") =>
            /\ HeaderFields(cb'[a].header, Head(queue[a]).msg)
            /\ HeaderData(cb'[a].header, payloads'[cb'[a].payload])
            /\ cb'[a].header.data_size =
                 payload_get_info(payloads'[cb'[a].payload]).length]_vars

\* C20: an inbound message taken while a message handler is registered starts
\* the callback, whatever its return code, with the boundary enumerator of the
\* same name and value in the header; the process goes on
C20_InboundReturnCode ==
    [][\A a \in Apps :
         (TakesEvent(a) /\ Head(queue[a]).kind = "message" /\ msg_h[a] # NoHandler) =>
            /\ thr'[a] = "in_callback" /\ cb'[a].kind = "message"
            /\ cb'[a].header.return_code = enum_return_code[Head(queue[a]).msg.return_code]
            /\ halted' = "no" /\ diag' = <<>>]_vars

\* the callback runs for a response that reports a timeout
C20_Witness ==
    \E a \in Apps :
      /\ thr[a] = "in_callback" /\ cb[a].kind = "message"
      /\ cb[a].header.return_code = E_TIMEOUT /\ halted = "no"

(* --------------------------- dispatch thread --------------------------- *)

\* a callback of the application starts in this step
CallbackStarts(a) == cb'[a] # NoCb /\ cb'[a] # cb[a]

\* C21: a callback runs only while the run operation of the Runtime runs on
\* the application's dispatch thread; every start of a state, availability or
\* message callback is the dispatch thread taking an event, and the step of a
\* facade operation on a caller thread (a registration, a service request or
\* release, a send) starts no callback.
C21_DispatchThreadOnly ==
    [][\A a \in Apps :
         /\ thr'[a] = "in_callback" => runs_on'[a] = "dispatch"
         /\ CallbackStarts(a) =>
              /\ TakesEvent(a)
              /\ runs_on[a] = "dispatch"
              /\ UNCHANGED <<regVars, viewVars, sendVars, last_call>>]_vars

\* a message callback runs on the dispatch thread after the caller has
\* registered, requested a service and sent
C21_Witness ==
    \E a \in Apps :
       /\ thr[a] = "in_callback" /\ cb[a].kind = "message"
       /\ runs_on[a] = "dispatch"
       /\ reg_avail[a][<<1, 1, 1>>] # NoHandler
       /\ sent > 0

(* ------------------------- handler replacement ------------------------- *)

\* the handler registered for the slot or key of event e before the facade
\* call in progress, the latest registration with no call in progress
Previous(a, e) ==
    IF pending[a] = Idle THEN Registered(a, e)
    ELSE IF e.kind = "state" THEN pending[a].old_state
    ELSE IF e.kind = "message" THEN pending[a].old_msg
    ELSE IF pending[a].key = <<e.service, e.instance, e.major>> THEN pending[a].old_avail
    ELSE Registered(a, e)

\* C22: every event taken for a slot or key is delivered to the handler
\* registered before the registration in progress or to the one that
\* registration installs, with the callback and the context of one and the
\* same registration; with a handler registered before and one being
\* installed the event is never dropped.
C22_AtomicReplacement ==
    [][\A a \in Apps :
         TakesEvent(a) =>
            LET e == Head(queue[a])
                allowed == {Previous(a, e), Registered(a, e)}
            IN /\ CallbackStarts(a) =>
                    [fn |-> cb'[a].fn, ctx |-> cb'[a].ctx] \in allowed \ {NoHandler}
               /\ NoHandler \notin allowed => CallbackStarts(a)]_vars

\* a message callback runs with the earlier handler while the registration
\* that replaces it is between its two slots
C22_Witness ==
    \E a \in Apps :
       /\ pending[a].op = "register"
       /\ pending[a].old_msg = [fn |-> "f1", ctx |-> "o1"]
       /\ reg_msg[a] = [fn |-> "f2", ctx |-> "o2"]
       /\ thr[a] = "in_callback" /\ cb[a].kind = "message"
       /\ cb[a].fn = "f1" /\ cb[a].ctx = "o1"

(* -------------------- order of request and release --------------------- *)

\* the Runtime queues an event for the application in this step
Raises(a) == Len(queue'[a]) = Len(queue[a]) + 1

\* C24: an availability change raised for a requested service finds the
\* handler of the request installed (the request reaches the Runtime only
\* with the handler in place); while application_release_service is between
\* its two calls the handler is already cleared; and with the release
\* returned no availability callback for the key starts until it is requested
\* again.
C24_HandlerBeforeRequest ==
    [][\A a \in Apps :
         /\ Raises(a) =>
              LET e == queue'[a][Len(queue'[a])]
              IN (/\ e.kind = "avail"
                  /\ <<e.service, e.instance>> \in requested[a]
                  /\ pending[a].op # "release")
                 => avail_h[a][<<e.service, e.instance, e.major>>] # NoHandler
         /\ \A k \in AvailKeys :
              LET call == IF pending[a] = Idle THEN pending'[a] ELSE pending[a]
              IN (<<k[1], k[2]>> \in requested'[a] \ requested[a] /\ call.key = k)
                    => avail_h[a][k] # NoHandler /\ avail_h'[a][k] # NoHandler
         /\ pending[a].op = "release" => avail_h[a][pending[a].key] = NoHandler
         /\ TakesEvent(a) =>
              LET e == Head(queue[a])
              IN (/\ e.kind = "avail"
                  /\ pending[a].op # "request"
                  /\ reg_avail[a][<<e.service, e.instance, e.major>>] = NoHandler)
                 => ~CallbackStarts(a)]_vars

\* an availability callback of a requested service runs, the request returned
C24_Witness ==
    \E a \in Apps :
       /\ pending[a] = Idle
       /\ <<1, 1>> \in requested[a]
       /\ thr[a] = "in_callback" /\ cb[a].kind = "avail"
       /\ reg_avail[a][<<1, 1, 1>>] = [fn |-> cb[a].fn, ctx |-> cb[a].ctx]

(* ----------------------- frame of registration ------------------------- *)

\* C25: application_register_handlers changes the state slot only when the
\* state callback is non-null and the message slot only when the message
\* callback is non-null, installing the given callback with the given
\* context; a slot whose callback is null keeps the handler it had, and the
\* availability handlers and the requested services are never changed by it.
C25_RegisterFrame ==
    [][\A a \in Apps :
         /\ (pending[a] = Idle /\ pending'[a] # Idle /\ pending'[a].op = "register") =>
              LET p == pending'[a]
              IN /\ state_h'[a] = IF p.fn = NullFn THEN state_h[a]
                                  ELSE [fn |-> p.fn, ctx |-> p.ctx]
                 /\ msg_h'[a] = msg_h[a]
                 /\ avail_h'[a] = avail_h[a] /\ requested'[a] = requested[a]
         /\ (pending[a] # Idle /\ pending[a].op = "register" /\ pending'[a] = Idle) =>
              LET p == pending[a]
              IN /\ msg_h'[a] = IF p.mh = NullFn THEN msg_h[a]
                                ELSE [fn |-> p.mh, ctx |-> p.ctx]
                 /\ state_h'[a] = state_h[a]
                 /\ avail_h'[a] = avail_h[a] /\ requested'[a] = requested[a]]_vars

\* a registration with a null state callback has returned from its first
\* call: the state handler registered before is still installed, next to an
\* availability handler
C25_Witness ==
    \E a \in Apps :
       /\ pending[a] # Idle /\ pending[a].op = "register"
       /\ pending[a].fn = NullFn /\ pending[a].ctx = "o1"
       /\ state_h[a] = [fn |-> "f2", ctx |-> "o2"]
       /\ avail_h[a][<<1, 1, 1>>] # NoHandler

(* ------------------------ termination of delete ------------------------ *)

PointerOps ==
    {"application_offer_event", "application_request_event", "application_create_message"}

\* the array pointer and the count of a call of one of the three operations
PointerOf(call) == IF call.op = "application_create_message" THEN call.data ELSE call.args[4]
CountOf(call) == IF call.op = "application_create_message" THEN call.data_size ELSE call.args[5]

\* C26: a call of application_offer_event, application_request_event or
\* application_create_message with a null array pointer aborts exactly when
\* its count is non-zero, and then nothing is registered and no message is
\* made; with a count of zero the call goes through, registering the event
\* with the empty set of event groups or returning a message without payload.
C26_NullOnlyWithCount ==
    [][(last_call' # last_call /\ last_call'.op \in PointerOps) =>
         LET call == last_call'
         IN /\ (PointerOf(call) = NullPtr /\ CountOf(call) > 0) =>
                 /\ halted' = "abort"
                 /\ events' = events /\ messages' = messages
            /\ CountOf(call) = 0 =>
                 /\ halted' = "no"
                 /\ IF call.op = "application_create_message"
                    THEN /\ call.ret # NULL
                         /\ ~messages'[call.ret].msg.has_payload
                    ELSE \E r \in events'[call.h] :
                            r.op = call.op /\ r.groups = {}]_vars

(* ----------------------- applications side by side --------------------- *)

\* a step of application_delete on a: its begin, a step of the destructor or
\* its return
DeleteStep(a) ==
    /\ app_cell[a] \in {"live", "deleting"}
    /\ \/ app_cell'[a] # app_cell[a]
       \/ dtor_i'[a] # dtor_i[a]

\* what an application owns: handlers, requested services, dispatch thread,
\* stop signal, session, queued events, running callback, cell
Owned(a) ==
    <<state_h[a], msg_h[a], avail_h[a], requested[a], thr[a], stop_req[a], session[a],
      queue[a], cb[a], app_cell[a]>>

\* C27: no step of the deletion of one application changes anything another
\* application owns, and an application that is live has its session
\* registered, its dispatch thread not stopped and the handlers it registered
\* installed, whatever has been deleted next to it.
C27_DeleteOwnOnly ==
    [][\A a, b \in Apps :
         /\ (a # b /\ DeleteStep(a)) => Owned(b)' = Owned(b)
         /\ app_cell'[b] = "live" =>
              /\ session'[b] = "registered"
              /\ ~stop_req'[b]
              /\ thr'[b] \in {"spawned", "running", "in_callback"}
              /\ state_h'[b] = reg_state'[b]
              /\ avail_h'[b] = reg_avail'[b]]_vars

\* the second application has been deleted, its thread joined and its
\* session removed, while the first, created before it, is live with its
\* handlers and runs a callback
C27_Witness ==
    /\ app_cell[2] = "freed" /\ thr[2] = "joined" /\ session[2] = "removed"
    /\ reg_state[2] # NoHandler /\ state_h[2] = NoHandler
    /\ app_cell[1] = "live" /\ thr[1] = "in_callback" /\ session[1] = "registered"
    /\ state_h[1] = [fn |-> "f1", ctx |-> "o1"]

(* -------------------------- delivered payloads ------------------------- *)

====
